---- MODULE Spec2Model ----
(***************************************************************************)
(* Statistikkportalen: the variable-selection view (selection modes,       *)
(* codelists, query construction, validation, cell-count estimate), the    *)
(* table view (data fetch, layout, rotation dialog) and the cube           *)
(* addressing functions (buildDimensionCombinations, getDataValue,         *)
(* calculateFlatIndex).                                                    *)
(*                                                                         *)
(* Conventions of the model                                                *)
(*  - category codes and codelist entry codes are integers (the source     *)
(*    uses strings; only their identity and their category index matter);  *)
(*    the base categories of a dimension with n categories are 1..n and    *)
(*    the category index of code c is c-1;                                 *)
(*  - a query (the object built by getVariableSelection) is a function     *)
(*    from the dimension codes it has as keys to values                    *)
(*    [kind, n, codes]: kind "star" is "*", kind "top" is "top(n)", kind   *)
(*    "codes" is the array codes;                                          *)
(*  - the text of a number input is <<>> (empty) or <<n>>.                 *)
(***************************************************************************)
EXTENDS Integers, Sequences, FiniteSets, TLC

VARIABLES
  table,             \* AppState.selectedTable.id
  tableMetadata,     \* module variable tableMetadata: NoMetadata (null) or a response
  view,              \* AppState.currentView
  phase,             \* position of the asynchronous rendering of the current view
  items,             \* the .value-list-item elements of every variable card
  mode,              \* container.dataset.mode of every variable card
  selected,          \* codes of the .value-list-item.selected of every card
  topInput,          \* value of the .top-n-input of every card that has one
  elimination,       \* card.dataset.elimination of every card
  activeCodelists,   \* module variable activeCodelists: NoActive (null) or the info
  activeCodelistIds, \* AppState.activeCodelistIds: "" (no key) or the id
  dropdown,          \* .codelist-dropdown of every card: disabled, and the
                     \* getCodeList calls of its change handler in flight
  lastClickedIndex,  \* module constant lastClickedIndex: per dimension code the
                     \* position of the item clicked last, 0 while undefined
  detached,          \* getCodeList calls in flight of change handlers whose card
                     \* has left the document: dimension code and codelist id
  restoreQueue,      \* cards whose saved codelist restoreSelections still awaits
  preloaded,         \* dimensions with an entry in dimensionValueOrder
  fetchDisabled,     \* fetchButton.disabled
  statusText,        \* statusElement.className / text: which status is shown
  cellDisplay,       \* numbers shown in #cell-count-display of the variables view
  errorMsg,          \* message of the showError call of the last handler, or ""
  variableSelection, \* AppState.variableSelection
  tableLayout,       \* AppState.tableLayout
  currentData,       \* module variable currentData: NoData or a cube
  rendered,          \* what #data-container shows
  dialog,            \* the rotation dialog: chips in #rows-zone and #columns-zone
  request,           \* the last request handed to api.getTableData
  probe,             \* last cell looked up through getDataValue
  extraction,        \* a call of extractCodelistCodes: its argument, and its
                     \* result once it has returned
  urlUpdateTimer,    \* module variable urlUpdateTimer: << >> while no timeout is
                     \* pending, else the milliseconds since setTimeout
  location,          \* window.location.hash (route and parameters before their
                     \* encoding), and the history call that wrote it
  isLoaded,          \* BrowserState.isLoaded
  initPromise,       \* BrowserState._initPromise: 0 (null) or a promise of promises
  promises,          \* the promises _doInit has returned: pending, fulfilled or
                     \* rejected
  callers,           \* the callers of BrowserState.init: idle, awaiting the promise
                     \* p, or past their await with its outcome
  fetches,           \* number of api.getTables calls made by _doInit
  searchToken,       \* module variable _searchToken of the search view
  searchCalls,       \* the calls of _searchPerformSearch so far: query, and the
                     \* enhanced checkbox
  serverCalls,       \* the awaited api.getTables of enhanced searches in
                     \* flight: the call, and its myToken
  searchResults,     \* what #search-content-area shows, and the call that
                     \* rendered it
  clock,             \* Date.now(), in milliseconds since the page was loaded
  lastRequestTime,   \* api._lastRequestTime on the same scale, 0 before the
                     \* first request
  throttled,         \* the calls of _throttledFetch: not made, waiting for
                     \* their timeout, or past their fetch
  sentAt,            \* the requests sent: when, and whether the call waited
  lsItem,            \* localStorage[prefix + key] of one cache key: NoItem or
                     \* the item, fresh until it expires or becomes stale
  lsRef,             \* localStorage[prefix + key + '_ref'] is present
  idbItem,           \* the entry of the key in the IndexedDB store
  written,           \* the value of the last set(key, ..) if it met no storage
                     \* failure and no time has passed since, else NoValue
  lastGet            \* whether the last call was get(key), and what it returned

vars == << table, tableMetadata, view, phase, items, mode, selected, topInput,
           elimination, activeCodelists, activeCodelistIds, dropdown,
           lastClickedIndex, detached, restoreQueue, preloaded, fetchDisabled,
           statusText, cellDisplay,
           errorMsg, variableSelection, tableLayout, currentData, rendered,
           dialog, request, probe, extraction, urlUpdateTimer, location,
           isLoaded, initPromise, promises, callers, fetches,
           searchToken, searchCalls, serverCalls, searchResults,
           clock, lastRequestTime, throttled, sentAt,
           lsItem, lsRef, idbItem, written, lastGet >>

\* BrowserState and its callers
browserState == << isLoaded, initPromise, promises, callers, fetches >>

\* the search view
searchState == << searchToken, searchCalls, serverCalls, searchResults >>

\* the throttle of SSBApi
throttleState == << clock, lastRequestTime, throttled, sentAt >>

\* the CacheManager, for one key
cacheState == << lsItem, lsRef, idbItem, written, lastGet >>

\* the state of the services behind the views
services == << browserState, searchState, throttleState, cacheState >>

(***************************************************************************)
(* Bounds of the model and constants of the program                        *)
(***************************************************************************)
MaxTopN == 2            \* numbers typed into a top-n input: 0..MaxTopN
MaxClick == 1           \* value-list items a click may hit: the first MaxClick
MaxDetached == 1        \* a codelist is requested while fewer than MaxDetached
                        \* requests of detached handlers are in flight
MaxEntries == 2         \* entries of a codelist response handed to extractCodelistCodes
MaxSize == 3            \* largest category count of a probed cube dimension
MaxValues == 12         \* largest number of values of a probed cube

maxCells == 800000      \* AppConfig.limits.maxCells
maxDisplay == 500       \* renderValueList: const maxDisplay
DefaultTopQuery == 10   \* getVariableSelection: value || '10'
DefaultTopCount == 12   \* updateSelectionCellCount / restoreSelections: '12'

(***************************************************************************)
(* Sequence helpers                                                        *)
(***************************************************************************)
SeqToSet(s) == { s[i] : i \in 1..Len(s) }

InSeq(x, s) == \E i \in 1..Len(s) : s[i] = x

IndexOf(x, s) ==   \* Array.prototype.indexOf, 1-based, 0 when absent
  IF InSeq(x, s) THEN CHOOSE i \in 1..Len(s) : s[i] = x /\ \A j \in 1..(i-1) : s[j] # x
  ELSE 0

Reverse(s) == [ i \in 1..Len(s) |-> s[Len(s) + 1 - i] ]

NoDup(s) == \A i, j \in 1..Len(s) : i # j => s[i] # s[j]

RECURSIVE Dedup(_)
Dedup(s) ==        \* insertion order of a Set filled from s
  IF s = <<>> THEN <<>>
  ELSE LET front == Dedup(SubSeq(s, 1, Len(s) - 1))
       IN  IF InSeq(s[Len(s)], front) THEN front ELSE Append(front, s[Len(s)])

RECURSIVE Flatten(_)
Flatten(ss) == IF ss = <<>> THEN <<>> ELSE Head(ss) \o Flatten(Tail(ss))

RECURSIVE ProdSeq(_)
ProdSeq(s) == IF s = <<>> THEN 1 ELSE Head(s) * ProdSeq(Tail(s))

RECURSIVE SumSeq(_)
SumSeq(s) == IF s = <<>> THEN 0 ELSE Head(s) + SumSeq(Tail(s))

Min(a, b) == IF a < b THEN a ELSE b

(***************************************************************************)
(* Inputs from the table-metadata and codelist services.  Every table is   *)
(* one metadata response: id (dimension order), extension.px heading/stub, *)
(* and per dimension the number of categories (category.label), the        *)
(* extension.elimination flag and extension.codelists.                     *)
(***************************************************************************)
NoCodelist == ""

NoDims == {}

NoMetadata ==
  [ loaded |-> FALSE, id |-> << >>, heading |-> << >>, stub |-> << >>,
    dimension |-> [ d \in NoDims |-> 0 ] ]

Meta(t) ==
  CASE t = "t_region" ->
         [ loaded |-> TRUE,
           id |-> << "Region" >>, heading |-> << >>, stub |-> << "Region" >>,
           dimension |->
             [ Region |-> [ count |-> 3, elimination |-> FALSE,
                            codelists |-> << "agg_Region", "vs_Region" >> ] ] ]
    [] t = "t_tid" ->
         [ loaded |-> TRUE,
           id |-> << "Kjonn", "Tid" >>, heading |-> << "Tid" >>, stub |-> << "Kjonn" >>,
           dimension |->
             [ Kjonn |-> [ count |-> 1, elimination |-> TRUE, codelists |-> << >> ],
               Tid   |-> [ count |-> 2, elimination |-> FALSE, codelists |-> << >> ] ] ]
    [] t = "t_alder" ->
         [ loaded |-> TRUE,
           id |-> << "Alder", "ContentsCode" >>, heading |-> << >>, stub |-> << >>,
           dimension |->
             [ Alder        |-> [ count |-> 2, elimination |-> TRUE,
                                  codelists |-> << "Aldersgrupper" >> ],
               ContentsCode |-> [ count |-> 1, elimination |-> FALSE,
                                  codelists |-> << >> ] ] ]
    [] t = "t_aar" ->
         [ loaded |-> TRUE,
           id |-> << "Tid" >>, heading |-> << "Tid" >>, stub |-> << >>,
           dimension |->
             [ Tid |-> [ count |-> 2, elimination |-> FALSE,
                         codelists |-> << "vs_Tid" >> ] ] ]
    [] t = "t_par" ->
         [ loaded |-> TRUE,
           id |-> << "Alder", "Kjonn" >>, heading |-> << >>, stub |-> << >>,
           dimension |->
             [ Alder |-> [ count |-> 1, elimination |-> TRUE,
                           codelists |-> << "Aldersgrupper" >> ],
               Kjonn |-> [ count |-> 1, elimination |-> TRUE,
                           codelists |-> << "vs_Kjonn" >> ] ] ]
    [] t = "t_stor" ->
         [ loaded |-> TRUE,
           id |-> << "Yrke", "Naring" >>, heading |-> << >>, stub |-> << "Yrke" >>,
           dimension |->
             [ Yrke   |-> [ count |-> 1000, elimination |-> FALSE, codelists |-> << >> ],
               Naring |-> [ count |-> 1000, elimination |-> FALSE, codelists |-> << >> ] ] ]
    [] OTHER ->
         [ loaded |-> TRUE,
           id |-> << "Kjonn", "Landbakgrunn", "ContentsCode" >>,
           heading |-> << >>, stub |-> << >>,
           dimension |->
             [ Kjonn        |-> [ count |-> 2, elimination |-> FALSE, codelists |-> << >> ],
               Landbakgrunn |-> [ count |-> 2, elimination |-> TRUE,
                                  codelists |-> << >> ],
               ContentsCode |-> [ count |-> 1, elimination |-> FALSE,
                                  codelists |-> << >> ] ] ]

\* d === 'Tid' || d.toLowerCase().includes('tid'), on the dimension codes above
IsTimeDim(d) == d \in { "Tid" }

\* A codelist resource: elimination, and values (hasValues FALSE: no values
\* array).  An entry without valueMap has valueMap << >>, one without code has
\* code 0.
CodelistData(id) ==
  CASE id = "vs_Region" ->
         [ elimination |-> FALSE, hasValues |-> TRUE,
           values |-> << [ code |-> 2, valueMap |-> << 2 >> ],
                         [ code |-> 1, valueMap |-> << >> ] >> ]
    [] id = "vs_Tid" ->
         [ elimination |-> FALSE, hasValues |-> TRUE,
           values |-> << [ code |-> 2, valueMap |-> << 2 >> ],
                         [ code |-> 1, valueMap |-> << 1 >> ] >> ]
    [] id = "agg_Region" ->
         [ elimination |-> TRUE, hasValues |-> TRUE,
           values |-> << [ code |-> 101, valueMap |-> << 1, 2 >> ],
                         [ code |-> 0,   valueMap |-> << 3 >> ],
                         [ code |-> 102, valueMap |-> << 2, 3 >> ] >> ]
    [] OTHER ->
         [ elimination |-> FALSE, hasValues |-> FALSE, values |-> << >> ]

\* cl.id.toLowerCase().startsWith('vs_') / startsWith('agg_'), on the ids above
IdPrefix(id) ==
  CASE id \in { "vs_Region", "vs_Tid", "vs_Kjonn" } -> "vs"
    [] id \in { "agg_Region" } -> "agg"
    [] OTHER -> "other"

sortCodelistOptions(codelists) ==
  SelectSeq(codelists, LAMBDA c : IdPrefix(c) = "vs")
    \o SelectSeq(codelists, LAMBDA c : IdPrefix(c) = "other")
    \o SelectSeq(codelists, LAMBDA c : IdPrefix(c) = "agg")

\* the entry pushed with its valueMap as received
KeptEntryAsReceived(item) == [ code |-> item.code, valueMap |-> item.valueMap ]

\* extractCodelistCodes: the kept entries, the original codes they cover (in
\* the insertion order of the Set) and the aggregation flag.
KeptEntry(item) ==
  [ code |-> item.code,
    valueMap |-> IF Len(item.valueMap) > 0 THEN item.valueMap ELSE << item.code >> ]

KeptEntries(withCode) == [ i \in 1..Len(withCode) |-> KeptEntry(withCode[i]) ]

\* the result with the aggregation flag set by the length of a valueMap alone
CodelistInfoByLength(values) ==
  [ isAggregated |-> \E i \in 1..Len(values) : Len(values[i].valueMap) # 1,
    values |-> values,
    originalCodes |-> Dedup(Flatten([ i \in 1..Len(values) |-> values[i].valueMap ])) ]

CodelistInfoOf(values) ==
  [ isAggregated |->
      \E i \in 1..Len(values) :
        Len(values[i].valueMap) # 1 \/ values[i].valueMap[1] # values[i].code,
    values |-> values,
    originalCodes |-> Dedup(Flatten([ i \in 1..Len(values) |-> values[i].valueMap ])) ]

extractCodelistCodes(codelistData) ==
  IF ~codelistData.hasValues
  THEN [ isAggregated |-> FALSE, values |-> << >>, originalCodes |-> << >> ]
  ELSE CodelistInfoOf(KeptEntries(SelectSeq(codelistData.values,
                                            LAMBDA item : item.code # 0)))

\* activeCodelists[dimCode]: null, or the record the handlers store
NoActive ==
  [ codelistId |-> NoCodelist, elimination |-> FALSE, isAggregated |-> FALSE,
    values |-> << >>, originalCodes |-> << >> ]

ActiveOf(id, effectiveElimination, codelistInfo) ==
  [ codelistId |-> id, elimination |-> effectiveElimination,
    isAggregated |-> codelistInfo.isAggregated, values |-> codelistInfo.values,
    originalCodes |-> codelistInfo.originalCodes ]

\* the codelist installed with the codelist's own elimination flag alone
InstallCodelistFlagOnly(meta, dimCode, id, codelistData) ==
  ActiveOf(id, codelistData.elimination, extractCodelistCodes(codelistData))

\* the codelist id installed on dimension dimCode of metadata meta from the
\* response codelistData
InstallCodelist(meta, dimCode, id, codelistData) ==
  ActiveOf(id, meta.dimension[dimCode].elimination \/ codelistData.elimination,
           extractCodelistCodes(codelistData))

Dims(meta) == SeqToSet(meta.id)

getDimensionDisplayOrder(meta) ==
  (meta.heading \o meta.stub)
    \o SelectSeq(meta.id, LAMBDA d : ~InSeq(d, meta.heading \o meta.stub))

\* the flatMap of preloadCodelistOrdering over the values of a response
FlatMapValues(vals) ==
  Flatten([ i \in 1..Len(vals) |->
              IF Len(vals[i].valueMap) > 0 THEN vals[i].valueMap
              ELSE << vals[i].code >> ])

FirstCodelist(meta, d) == sortCodelistOptions(meta.dimension[d].codelists)[1]

\* dimensionValueOrder[d] after a successful preload
PreloadOrder(meta, d) ==
  IF meta.dimension[d].codelists = << >> THEN << >>
  ELSE FlatMapValues(CodelistData(FirstCodelist(meta, d)).values)

\* an element of a value list: data-code and data-valuemap (hasMap FALSE: the
\* attribute is absent)
PlainItem(c) == [ code |-> c, hasMap |-> FALSE, valueMap |-> << >> ]

\* an element rendered without its data-valuemap attribute
ItemWithoutValueMap(v) == [ code |-> v.code, hasMap |-> FALSE, valueMap |-> << >> ]

MappedItem(v) == [ code |-> v.code, hasMap |-> TRUE, valueMap |-> v.valueMap ]

\* codes ordered by a preferred order first, the remaining ones after
PreferredFirst(codes, pref) == pref \o SelectSeq(codes, LAMBDA c : ~InSeq(c, pref))

OrderedCodes(d, n, codes, hasOrder, order) ==
  IF IsTimeDim(d) THEN Reverse(codes)
  ELSE IF hasOrder
       THEN PreferredFirst(codes, SelectSeq(Dedup(order), LAMBDA c : c \in 1..n))
       ELSE codes

Truncated(ordered) == SubSeq(ordered, 1, Min(Len(ordered), maxDisplay))

ItemsOfCodes(codes) == [ i \in 1..Len(codes) |-> PlainItem(codes[i]) ]

\* renderValueList: the rendered .value-list-item elements
renderValueList(meta, d, hasOrder) ==
  ItemsOfCodes(Truncated(OrderedCodes(d, meta.dimension[d].count,
                                      [ i \in 1..meta.dimension[d].count |-> i ],
                                      hasOrder, PreloadOrder(meta, d))))

\* renderCodelistValues: the elements rendered from codelistInfo.values
renderCodelistValues(codelistValues) ==
  [ i \in 1..Len(codelistValues) |-> MappedItem(codelistValues[i]) ]

(***************************************************************************)
(* The variables view.  Its operators take the view s they read: the cards *)
(* of the DOM and the module variables tableMetadata and activeCodelists.  *)
(***************************************************************************)
Dom ==
  [ tableMetadata |-> tableMetadata, items |-> items, mode |-> mode,
    selected |-> selected, topInput |-> topInput, elimination |-> elimination,
    activeCodelists |-> activeCodelists ]

\* document.querySelectorAll('.variable-card'): their data-dimension
Cards(s) == DOMAIN s.mode

HasTopInput(d) == IsTimeDim(d)     \* displayVariables renders it for time dimensions

HasDropdown(meta, d) == Len(meta.dimension[d].codelists) > 0

HasCodelist(s, d) == s.activeCodelists[d].codelistId # NoCodelist

\* container.querySelectorAll('.value-list-item.selected')
SelectedItems(s, d) == SelectSeq(s.items[d], LAMBDA it : it.code \in s.selected[d])

\* tableMetadata.dimension[d].category.index[c] ?? 0
CategoryIndex(n, c) == IF c \in 1..n THEN c - 1 ELSE 0

RECURSIVE InsertByIndex(_, _, _)
InsertByIndex(n, c, q) ==
  IF q = <<>> THEN << c >>
  ELSE IF CategoryIndex(n, q[Len(q)]) <= CategoryIndex(n, c) THEN Append(q, c)
       ELSE Append(InsertByIndex(n, c, SubSeq(q, 1, Len(q) - 1)), q[Len(q)])

RECURSIVE SortByIndex(_, _)
SortByIndex(n, q) ==   \* values.sort((a, b) => index[a] - index[b]), stable
  IF q = <<>> THEN <<>>
  ELSE InsertByIndex(n, q[Len(q)], SortByIndex(n, SubSeq(q, 1, Len(q) - 1)))

StarValue == [ kind |-> "star", n |-> 0, codes |-> << >> ]
TopValue(n) == [ kind |-> "top", n |-> n, codes |-> << >> ]
CodesValue(c) == [ kind |-> "codes", n |-> 0, codes |-> c ]

\* 'top(' + (input?.value || '10') + ')'
TopQueryN(s, d) ==
  IF HasTopInput(d) /\ s.topInput[d] # << >> THEN s.topInput[d][1] ELSE DefaultTopQuery

\* Array.from(selectedItems).map(item => item.dataset.code)
CodesOf(sel) == [ i \in 1..Len(sel) |-> sel[i].code ]

\* the valueMaps of the selected items appended one after the other
ExpandedWithRepeats(sel) ==
  Flatten([ i \in 1..Len(sel) |-> IF sel[i].hasMap THEN sel[i].valueMap ELSE << >> ])

\* Array.from(expandedCodes): the valueMaps of the selected items, as a Set
ExpandedCodes(sel) ==
  Dedup(Flatten([ i \in 1..Len(sel) |-> IF sel[i].hasMap THEN sel[i].valueMap ELSE << >> ]))

SortIfTime(s, d, values) ==
  IF IsTimeDim(d) /\ s.tableMetadata.loaded
  THEN SortByIndex(s.tableMetadata.dimension[d].count, values)
  ELSE values

ValuesOf(s, d, sel) ==
  SortIfTime(s, d, IF HasCodelist(s, d) THEN ExpandedCodes(sel) ELSE CodesOf(sel))

\* the values of a card in specific mode
SpecificValues(s, d) == ValuesOf(s, d, SelectedItems(s, d))

\* the All mode emitting "*" whether or not a codelist is active
StarRegardlessOfCodelist(s, d, values) ==
  [ emits |-> \/ s.mode[d] \in { "star", "top" }
              \/ ~(s.elimination[d] /\ values = << >>),
    value |-> CASE s.mode[d] = "star" -> StarValue
                [] s.mode[d] = "top" -> TopValue(TopQueryN(s, d))
                [] OTHER -> CodesValue(values) ]

\* what one card contributes to the selection object: whether it sets a key,
\* and the value
CardEntry(s, d, values) ==
  [ emits |-> \/ s.mode[d] \in { "star", "top" }
              \/ ~(s.elimination[d] /\ values = << >>),
    value |-> CASE s.mode[d] = "star" ->
                     IF HasCodelist(s, d)
                     THEN CodesValue(s.activeCodelists[d].originalCodes)
                     ELSE StarValue
                [] s.mode[d] = "top" -> TopValue(TopQueryN(s, d))
                [] OTHER -> CodesValue(values) ]

SelectionOf(entries) ==
  [ d \in { c \in DOMAIN entries : entries[c].emits } |-> entries[d].value ]

getVariableSelection(s) ==
  SelectionOf([ d \in Cards(s) |-> CardEntry(s, d, SpecificValues(s, d)) ])

\* !dimSelection  ||  Array.isArray(dimSelection) && dimSelection.length === 0
EmptyDimSelection(selection, d) ==
  \/ d \notin DOMAIN selection
  \/ selection[d].kind = "codes" /\ selection[d].codes = << >>

\* card ? card.dataset.elimination === 'true' : false
CardElimination(s, d) == IF d \in Cards(s) THEN s.elimination[d] ELSE FALSE

validateSelection(s, selection) ==
  /\ s.tableMetadata.loaded
  /\ \A d \in Dims(s.tableMetadata) :
        CardElimination(s, d) \/ ~EmptyDimSelection(selection, d)

getTrueDimensionValueCount(s, d) ==
  IF HasCodelist(s, d) THEN Len(s.activeCodelists[d].originalCodes)
  ELSE IF s.tableMetadata.loaded /\ d \in DOMAIN s.tableMetadata.dimension
       THEN s.tableMetadata.dimension[d].count
       ELSE 0

\* parseInt(input?.value || '12', 10)
TopCountN(s, d) ==
  IF HasTopInput(d) /\ s.topInput[d] # << >> THEN s.topInput[d][1] ELSE DefaultTopCount

\* updateSelectionCellCount: is card d skipped by the loop
SkippedCard(s, d) == s.selected[d] = {} /\ s.mode[d] = "specific" /\ s.elimination[d]

\* expandedCount over the selected items
ExpandedCount(sel) ==
  SumSeq([ i \in 1..Len(sel) |-> IF sel[i].hasMap THEN Len(sel[i].valueMap) ELSE 1 ])

CountOf(s, d, trueCount, sel) ==
  CASE s.mode[d] = "star" -> trueCount
    [] s.mode[d] = "top" -> Min(TopCountN(s, d), trueCount)
    [] OTHER -> IF HasCodelist(s, d) THEN ExpandedCount(sel) ELSE Len(sel)

dimSelectedCount(s, d) ==
  CountOf(s, d, getTrueDimensionValueCount(s, d), SelectedItems(s, d))

\* the cards the loop does not skip, in document order
IncludedCards(s) ==
  SelectSeq(getDimensionDisplayOrder(s.tableMetadata),
            LAMBDA d : d \in Cards(s) /\ ~SkippedCard(s, d))

\* selectedCells *= dimSelectedCount, only "if (dimSelectedCount > 0)"
MultipliedCounts(counts) ==
  ProdSeq([ i \in 1..Len(counts) |-> IF counts[i] > 0 THEN counts[i] ELSE 1 ])

CellTotals(s, included, counts, maxCounts) ==
  [ selectedCells |->
      IF \/ \E i \in 1..Len(included) : counts[i] = 0 /\ ~s.elimination[included[i]]
         \/ included = << >>
      THEN 0 ELSE MultipliedCounts(counts),
    maxCells |-> IF included = << >> THEN 0 ELSE ProdSeq(maxCounts) ]

CellTotalsOver(s, included) ==
  CellTotals(s, included,
             [ i \in 1..Len(included) |-> dimSelectedCount(s, included[i]) ],
             [ i \in 1..Len(included) |-> getTrueDimensionValueCount(s, included[i]) ])

updateSelectionCellCount(s) ==
  IF ~s.tableMetadata.loaded THEN [ selectedCells |-> 0, maxCells |-> 0 ]
  ELSE CellTotalsOver(s, IncludedCards(s))

\* updateSelectionStatus without its final "cellCount > maxCells" branch
StatusWithoutLimit(isValid, cells) ==
  [ fetchDisabled |-> ~isValid,
    statusText |-> IF ~isValid THEN "missing" ELSE "ready",
    cellDisplay |-> cells ]

\* updateSelectionStatus: the fetch button, the status line and the cell count
\* it leaves, from isValid and the result of updateSelectionCellCount
StatusOf(isValid, cells) ==
  [ fetchDisabled |-> ~isValid \/ (isValid /\ cells.selectedCells > maxCells),
    statusText |->
      IF ~isValid THEN "missing"
      ELSE IF cells.selectedCells > maxCells THEN "tooMany" ELSE "ready",
    cellDisplay |-> cells ]

StatusAfter(s) ==
  StatusOf(validateSelection(s, getVariableSelection(s)), updateSelectionCellCount(s))

SetStatus(after) ==
  /\ fetchDisabled' = after.fetchDisabled
  /\ statusText' = after.statusText
  /\ cellDisplay' = after.cellDisplay

\* the delay of the setTimeout of debouncedURLUpdate, in milliseconds
DebounceMs == 500

\* debouncedURLUpdate with a pending timeout left to run: no clearTimeout
debounceWithoutClear ==
  urlUpdateTimer' = IF urlUpdateTimer = << >> THEN << 0 >> ELSE urlUpdateTimer

\* debouncedURLUpdate: clearTimeout, and a new timeout that has run for 0 ms
debouncedURLUpdate == urlUpdateTimer' = << 0 >>

updateSelectionStatus(s) == SetStatus(StatusAfter(s)) /\ debouncedURLUpdate

\* the handler leaves the view s behind
SetDom(s) ==
  /\ tableMetadata' = s.tableMetadata
  /\ items' = s.items
  /\ mode' = s.mode
  /\ selected' = s.selected
  /\ topInput' = s.topInput
  /\ elimination' = s.elimination
  /\ activeCodelists' = s.activeCodelists

\* how many callers of BrowserState.init there are
MaxCallers == 3

\* the minimum distance of two requests of _throttledFetch, in milliseconds
ThrottleMs == 100

\* how many calls of _throttledFetch are made
MaxRequests == 3

\* this.largeSizeThreshold of the CacheManager, in bytes
LargeSizeThreshold == 1048576

\* null, for a cached value
NoValue == [ id |-> 0, bytes |-> 0 ]

\* no entry in a storage
NoItem == [ value |-> NoValue, fresh |-> FALSE ]

Requests == 1..MaxRequests

Callers == 1..MaxCallers

\* the services before their first call
ServicesIdle ==
  /\ isLoaded = FALSE
  /\ initPromise = 0
  /\ promises = << >>
  /\ callers = [ c \in Callers |-> [ pc |-> "idle", p |-> 0 ] ]
  /\ fetches = 0
  /\ searchToken = 0
  /\ searchCalls = << >>
  /\ serverCalls = {}
  /\ searchResults = [ kind |-> "none", call |-> 0 ]
  /\ clock = ThrottleMs
  /\ lastRequestTime = 0
  /\ throttled = [ r \in Requests |-> [ pc |-> "idle", wake |-> 0 ] ]
  /\ sentAt = << >>
  /\ lsItem = NoItem
  /\ lsRef = FALSE
  /\ idbItem = NoItem
  /\ written = NoValue
  /\ lastGet = [ done |-> FALSE, value |-> NoValue ]

NoCellDisplay == [ selectedCells |-> 0, maxCells |-> 0 ]

\* the status widgets as renderVariableSelection renders them
FreshStatus ==
  /\ fetchDisabled' = TRUE
  /\ statusText' = "initial"
  /\ cellDisplay' = NoCellDisplay
  /\ UNCHANGED urlUpdateTimer

(***************************************************************************)
(* Initial state: the application at its home view, nothing loaded         *)
(***************************************************************************)
EmptyQuery == [ d \in NoDims |-> StarValue ]

NoCards == [ d \in NoDims |-> 0 ]

NoIds(meta) == [ d \in Dims(meta) |-> NoCodelist ]

NoActives(meta) == [ d \in Dims(meta) |-> NoActive ]

EmptyLayout == [ rows |-> << >>, columns |-> << >> ]

\* the c parameter of a hash: the keys AppState.activeCodelistIds has
CodelistParam(ids) ==
  [ d \in { e \in DOMAIN ids : ids[e] # NoCodelist } |-> ids[d] ]

\* URLRouter.buildHash: the route with the id of table t, and the parameters
\* v, c and l, each left out when empty
buildHash(route, t, v, ids, l) ==
  [ route |-> route, table |-> t, v |-> v, c |-> CodelistParam(ids), l |-> l ]

HomeHash == buildHash("home", "", EmptyQuery, EmptyQuery, EmptyLayout)

\* URLRouter.navigateTo: nothing when the hash is the current one, else
\* history.pushState or history.replaceState
navigateTo(hash, shouldPush) ==
  location' = IF location.hash = hash THEN location
              ELSE [ hash |-> hash,
                     how |-> IF shouldPush THEN "push" ELSE "replace" ]

\* the browser has loaded a URL, or gone back to one
Loaded(hash) == location' = [ hash |-> hash, how |-> "load" ]

NoData == [ loaded |-> FALSE, id |-> << >>, size |-> << >>, keys |-> << >> ]

NoDialog == [ open |-> FALSE, rows |-> << >>, columns |-> << >> ]

NoRequest == [ sent |-> FALSE, selection |-> EmptyQuery, via |-> "" ]

NoProbe == [ asked |-> FALSE, row |-> << >>, col |-> << >>, flat |-> 0, value |-> 0 ]

NoExtraction ==
  [ called |-> FALSE,
    codelistData |-> [ elimination |-> FALSE, hasValues |-> FALSE, values |-> << >> ],
    returned |-> FALSE,
    result |-> [ isAggregated |-> FALSE, values |-> << >>, originalCodes |-> << >> ] ]

InitOn(t) ==
  /\ table = t
  /\ tableMetadata = NoMetadata
  /\ view = "home"
  /\ phase = "idle"
  /\ items = NoCards
  /\ mode = NoCards
  /\ selected = NoCards
  /\ topInput = NoCards
  /\ elimination = NoCards
  /\ activeCodelists = NoActives(Meta(t))
  /\ activeCodelistIds = NoIds(Meta(t))
  /\ dropdown = NoCards
  /\ lastClickedIndex = [ d \in Dims(Meta(t)) |-> 0 ]
  /\ detached = << >>
  /\ restoreQueue = << >>
  /\ preloaded = {}
  /\ fetchDisabled = TRUE
  /\ statusText = "initial"
  /\ cellDisplay = NoCellDisplay
  /\ errorMsg = ""
  /\ variableSelection = EmptyQuery
  /\ tableLayout = EmptyLayout
  /\ currentData = NoData
  /\ rendered = "none"
  /\ dialog = NoDialog
  /\ request = NoRequest
  /\ probe = NoProbe
  /\ extraction = NoExtraction
  /\ urlUpdateTimer = << >>
  /\ location = [ hash |-> HomeHash, how |-> "load" ]
  /\ ServicesIdle

(***************************************************************************)
(* displayVariables, restoreSelections, autoSelectSingleValueDimensions    *)
(***************************************************************************)
\* the cards as displayVariables renders them, before restoreSelections; pre:
\* the dimensions with an entry in dimensionValueOrder
FreshDom(meta, pre) ==
  [ tableMetadata |-> meta,
    items |-> [ d \in Dims(meta) |-> renderValueList(meta, d, d \in pre) ],
    mode |-> [ d \in Dims(meta) |-> "specific" ],
    selected |-> [ d \in Dims(meta) |-> {} ],
    topInput |-> [ d \in Dims(meta) |->
                     IF HasTopInput(d) THEN << DefaultTopCount >> ELSE << >> ],
    elimination |-> [ d \in Dims(meta) |-> meta.dimension[d].elimination ],
    activeCodelists |-> NoActives(meta) ]

\* the view without cards (the container is re-rendered or replaced)
WithoutCards(s) ==
  [ s EXCEPT !.items = NoCards, !.mode = NoCards, !.selected = NoCards,
             !.topInput = NoCards, !.elimination = NoCards ]

\* the cards of the first pass that still get a codelist fetch, from queue q on
RECURSIVE NextRestore(_, _, _)
NextRestore(meta, q, ids) ==
  IF q = << >> THEN << >>
  ELSE IF ids[Head(q)] # NoCodelist /\ HasDropdown(meta, Head(q)) THEN q
       ELSE NextRestore(meta, Tail(q), ids)

\* second pass of restoreSelections on card d, from the saved selection
RestoredMode(saved, d, m) ==
  IF d \notin DOMAIN saved THEN m
  ELSE IF saved[d].kind \in { "star", "top" } THEN saved[d].kind ELSE m

RestoredTopInput(saved, d, ti) ==
  IF d \in DOMAIN saved /\ saved[d].kind = "top" /\ HasTopInput(d)
  THEN << saved[d].n >> ELSE ti

RestoredSelected(saved, d, sel, its) ==
  IF d \in DOMAIN saved /\ saved[d].kind = "codes"
  THEN sel \cup { its[i].code : i \in { j \in 1..Len(its) : InSeq(its[j].code, saved[d].codes) } }
  ELSE sel

SecondPass(s, saved) ==
  IF DOMAIN saved = {} THEN s
  ELSE [ s EXCEPT
           !.mode = [ d \in Cards(s) |-> RestoredMode(saved, d, s.mode[d]) ],
           !.selected = [ d \in Cards(s) |->
                            RestoredSelected(saved, d, s.selected[d], s.items[d]) ],
           !.topInput = [ d \in Cards(s) |-> RestoredTopInput(saved, d, s.topInput[d]) ] ]

\* autoSelectSingleValueDimensions without its isElimination test
AutoSelectsOptional(s, d) == Len(s.items[d]) = 1

\* autoSelectSingleValueDimensions
AutoSelects(s, d) == ~s.elimination[d] /\ Len(s.items[d]) = 1

autoSelectSingleValueDimensions(s) ==
  [ s EXCEPT
      !.mode = [ d \in Cards(s) |-> IF AutoSelects(s, d) THEN "specific" ELSE s.mode[d] ],
      !.selected = [ d \in Cards(s) |->
                       IF AutoSelects(s, d) THEN s.selected[d] \cup { s.items[d][1].code }
                       ELSE s.selected[d] ] ]

\* The synchronous tail of displayVariables on the view s: second pass of
\* restoreSelections, autoSelectSingleValueDimensions, updateSelectionStatus
Leave(s) == SetDom(s) /\ updateSelectionStatus(s)

FinishDisplay(s, saved) ==
  /\ Leave(autoSelectSingleValueDimensions(SecondPass(s, saved)))
  /\ phase' = "ready"

(***************************************************************************)
(* Entering the variables view                                             *)
(***************************************************************************)
\* URL parameters of a variables/<tableId> or table/<tableId> route: the
\* selection v and the codelist ids c
Routes(t) ==
  CASE t = "t_region" ->
         { [ v |-> EmptyQuery, c |-> [ Region |-> NoCodelist ] ],
           [ v |-> [ Region |-> CodesValue(<< 1, 2 >>) ], c |-> [ Region |-> "agg_Region" ] ] }
    [] t = "t_tid" ->
         { [ v |-> EmptyQuery, c |-> [ Kjonn |-> NoCodelist, Tid |-> NoCodelist ] ],
           [ v |-> [ Kjonn |-> CodesValue(<< 1 >>), Tid |-> TopValue(2) ],
             c |-> [ Kjonn |-> NoCodelist, Tid |-> NoCodelist ] ] }
    [] t = "t_alder" ->
         { [ v |-> EmptyQuery, c |-> [ Alder |-> NoCodelist, ContentsCode |-> NoCodelist ] ],
           [ v |-> [ Alder |-> StarValue, ContentsCode |-> StarValue ],
             c |-> [ Alder |-> "Aldersgrupper", ContentsCode |-> NoCodelist ] ] }
    [] t = "t_aar" ->
         { [ v |-> EmptyQuery, c |-> [ Tid |-> NoCodelist ] ],
           [ v |-> [ Tid |-> StarValue ], c |-> [ Tid |-> "vs_Tid" ] ] }
    [] t = "t_par" ->
         { [ v |-> [ Kjonn |-> CodesValue(<< 1 >>) ],
             c |-> [ Alder |-> "Aldersgrupper", Kjonn |-> "vs_Kjonn" ] ],
           [ v |-> [ Kjonn |-> TopValue(1) ],
             c |-> [ Alder |-> NoCodelist, Kjonn |-> NoCodelist ] ] }
    [] t = "t_stor" ->
         { [ v |-> EmptyQuery, c |-> [ Yrke |-> NoCodelist, Naring |-> NoCodelist ] ],
           [ v |-> [ Yrke |-> StarValue, Naring |-> CodesValue(<< 1 >>) ],
             c |-> [ Yrke |-> NoCodelist, Naring |-> NoCodelist ] ] }
    [] OTHER ->
         { [ v |-> EmptyQuery, c |-> NoIds(Meta(t)) ],
           [ v |-> [ Kjonn |-> CodesValue(<< 1, 2 >>), Landbakgrunn |-> CodesValue(<< 2 >>),
                     ContentsCode |-> StarValue ],
             c |-> NoIds(Meta(t)) ],
           [ v |-> [ Kjonn |-> StarValue, ContentsCode |-> CodesValue(<< 1 >>) ],
             c |-> NoIds(Meta(t)) ],
           [ v |-> [ Landbakgrunn |-> StarValue ], c |-> NoIds(Meta(t)) ] }

\* dimensions whose preload can succeed: the first codelist has a values array
PreloadableDims(meta) ==
  { d \in Dims(meta) :
      HasDropdown(meta, d) /\ CodelistData(FirstCodelist(meta, d)).hasValues }

\* the getCodeList calls that the change handlers of the cards dd still await
\* when the cards leave the document, card by card
Detach(dd) ==
  LET order == SelectSeq(getDimensionDisplayOrder(tableMetadata),
                         LAMBDA d : d \in DOMAIN dd)
  IN  Flatten([ i \in 1..Len(order) |->
                  [ j \in 1..Len(dd[order[i]].fetching) |->
                      [ dim |-> order[i], id |-> dd[order[i]].fetching[j] ] ] ])

\* displayVariables on the freshly rendered cards, up to the first codelist
\* fetch of restoreSelections
displayVariables(fresh, saved, queue) ==
  /\ restoreQueue' = queue
  /\ dropdown' = [ d \in Cards(fresh) |->
                    [ disabled |-> queue # << >> /\ Head(queue) = d,
                      fetching |-> << >> ] ]
  /\ IF queue = << >>
     THEN FinishDisplay(fresh, saved)
     ELSE SetDom(fresh) /\ FreshStatus /\ phase' = "restoring"

\* restoreSelections returns at once when nothing is saved
RestoreQueueOf(meta, saved, savedCodelists) ==
  IF DOMAIN saved = {} THEN << >>
  ELSE NextRestore(meta, getDimensionDisplayOrder(meta), savedCodelists)

\* renderVariableSelection -> loadTableMetadata -> displayVariables, with saved
\* selection v and saved codelist ids c.  The variables container shows no
\* card until displayVariables has rendered them, so the metadata fetch and
\* the codelist preloads are taken in the same step; metaOk and pre are their
\* outcomes (pre: the dimensions whose preload succeeded).
renderVariableSelection(meta, v, c, metaOk, pre) ==
  /\ view' = "variables"
  /\ rendered' = "none"
  /\ dialog' = NoDialog
  /\ detached' = detached \o Detach(dropdown)
  /\ UNCHANGED << tableLayout, currentData, request, probe >>
  /\ IF ~metaOk
     THEN /\ SetDom(WithoutCards(Dom))
          /\ phase' = "failed"
          /\ errorMsg' = "Kunne ikke laste metadata"
          /\ restoreQueue' = << >>
          /\ dropdown' = NoCards
          /\ FreshStatus
          /\ UNCHANGED preloaded
     ELSE /\ errorMsg' = ""
          /\ preloaded' = pre
          /\ displayVariables(FreshDom(meta, pre), v, RestoreQueueOf(meta, v, c))

\* URLRouter._handleVariablesRoute on a variables/<tableId> URL with the
\* parameters v and c.  BrowserState.selectTable (see SelectTable) leaves the
\* view as the URL without parameters does, and pushes that URL.
OpenVariables ==
  /\ view = "home"
  /\ \E r \in Routes(table), metaOk \in BOOLEAN,
        pre \in SUBSET PreloadableDims(Meta(table)) :
       /\ variableSelection' = r.v
       /\ activeCodelistIds' = r.c
       /\ Loaded(buildHash("variables", table, r.v, r.c, EmptyLayout))
       /\ renderVariableSelection(Meta(table), r.v, r.c, metaOk, pre)
       /\ UNCHANGED << services, table, extraction, lastClickedIndex >>

\* the card after the awaited getCodeList of restoreSelections returned data
RestoredCodelist(s, d, active) ==
  [ s EXCEPT !.activeCodelists[d] = active,
             !.elimination[d] = active.elimination,
             !.items[d] = renderCodelistValues(active.values),
             !.selected[d] = {} ]

\* restoreSelections, first pass: the dropdown of card d is enabled again and
\* the one of the next card of the queue is disabled for its getCodeList
AwaitNext(dd, d, rest) ==
  [ e \in DOMAIN dd |->
      IF rest # << >> /\ e = Head(rest) THEN [ dd[e] EXCEPT !.disabled = TRUE ]
      ELSE IF e = d THEN [ dd[e] EXCEPT !.disabled = FALSE ]
      ELSE dd[e] ]

\* restoreSelections, first pass: the awaited getCodeList of the card at the
\* head of the queue returns (ok) or safeApiCall returns null (~ok)
RestoreStep(s, rest) ==
  /\ restoreQueue' = rest
  /\ IF rest = << >>
     THEN FinishDisplay(s, variableSelection)
     ELSE /\ SetDom(s)
          /\ UNCHANGED << phase, fetchDisabled, statusText, cellDisplay, urlUpdateTimer >>

RestoreCodelistDone ==
  /\ view = "variables" /\ phase = "restoring"
  /\ \E ok \in BOOLEAN :
       /\ errorMsg' = IF ok THEN "" ELSE "Kunne ikke laste kodeliste"
       /\ dropdown' = AwaitNext(dropdown, Head(restoreQueue),
                                 NextRestore(tableMetadata, Tail(restoreQueue),
                                             activeCodelistIds))
       /\ UNCHANGED << services, table, extraction, lastClickedIndex, detached,
                       view, activeCodelistIds, preloaded, location,
                       variableSelection, tableLayout, currentData, rendered, dialog,
                       request, probe >>
       /\ RestoreStep(IF ok
                      THEN RestoredCodelist(Dom, Head(restoreQueue),
                             InstallCodelist(tableMetadata, Head(restoreQueue),
                               activeCodelistIds[Head(restoreQueue)],
                               CodelistData(activeCodelistIds[Head(restoreQueue)])))
                      ELSE Dom,
                      NextRestore(tableMetadata, Tail(restoreQueue), activeCodelistIds))

(***************************************************************************)
(* Event handlers of the variable cards (variable-select-events.js).  The  *)
(* text filter is left empty, so every item is visible.                    *)
(***************************************************************************)
CardsShown == view = "variables" /\ phase \in { "restoring", "ready" }

\* what the card handlers leave alone
AppUnchanged ==
  UNCHANGED << services, table, extraction, view, phase, restoreQueue, preloaded, variableSelection,
               tableLayout, currentData, rendered, dialog, request, probe, location >>

\* a handler that leaves the cards as s and ends with updateSelectionStatus()
CardHandler(s) ==
  /\ Leave(s)
  /\ errorMsg' = ""
  /\ UNCHANGED << activeCodelistIds, dropdown >>
  /\ AppUnchanged

\* the item a click hits: one of the first MaxClick items of the list, by its
\* position (data-index + 1)
ClickTargets(d) == 1..Min(MaxClick, Len(items[d]))

\* the codes of the items at the positions from one index to the other
RangeCodes(its, a, b) ==
  { its[i].code : i \in { j \in 1..Len(its) : Min(a, b) <= j /\ j <= IF a < b THEN b ELSE a } }

\* every click selecting the clicked item alone
ClickedAlone(its, sel, last, k, ctrl, shift) == { its[k].code }

\* the selected items after a click on the item at position k
Clicked(its, sel, last, k, ctrl, shift) ==
  IF shift /\ last # 0
  THEN (IF ctrl THEN sel ELSE {}) \cup RangeCodes(its, last, k)
  ELSE IF ctrl
       THEN IF its[k].code \in sel THEN sel \ { its[k].code } ELSE sel \cup { its[k].code }
       ELSE { its[k].code }

\* the click handler of card d without the switch back to specific mode
ClickKeepingMode(d) ==
  \E k \in ClickTargets(d), ctrl \in BOOLEAN, shift \in BOOLEAN :
    /\ CardHandler([ Dom EXCEPT
                       !.selected[d] = Clicked(items[d], @, lastClickedIndex[d],
                                               k, ctrl, shift) ])
    /\ lastClickedIndex' = [ lastClickedIndex EXCEPT ![d] = k ]
    /\ UNCHANGED detached

\* click on a value-list item: Shift-click selects the range from the item
\* clicked last, Ctrl/Cmd-click toggles the item, a plain click selects it
\* alone; all of them leave star/top mode
ClickWith(d, k, ctrl, shift) ==
  /\ CardHandler([ Dom EXCEPT
                     !.mode[d] = "specific",
                     !.selected[d] = Clicked(items[d], @, lastClickedIndex[d],
                                             k, ctrl, shift) ])
  /\ lastClickedIndex' = [ lastClickedIndex EXCEPT ![d] = k ]
  /\ UNCHANGED detached

ClickOn(d) ==
  \E k \in ClickTargets(d), ctrl \in BOOLEAN, shift \in BOOLEAN :
    ClickWith(d, k, ctrl, shift)

ClickItem == CardsShown /\ \E d \in Cards(Dom) : ClickOn(d)

\* a handler of a button or an input of the card
ButtonHandler(s) == CardHandler(s) /\ UNCHANGED << lastClickedIndex, detached >>

\* "Alle (*)" button
SelectStar ==
  /\ CardsShown
  /\ \E d \in Cards(Dom) : ButtonHandler([ Dom EXCEPT !.mode[d] = "star" ])

\* "Siste" button (rendered for time dimensions only)
SelectTop ==
  /\ CardsShown
  /\ \E d \in Cards(Dom) :
       /\ HasTopInput(d)
       /\ ButtonHandler([ Dom EXCEPT !.mode[d] = "top" ])

\* typing into the top-n input: the field is emptied or holds a number
TopInputTexts == { << >> } \cup { << n >> : n \in 0..MaxTopN }

EditTopInput ==
  /\ CardsShown
  /\ \E d \in Cards(Dom) : \E text \in TopInputTexts :
       /\ HasTopInput(d)
       /\ text # topInput[d]
       /\ ButtonHandler([ Dom EXCEPT !.topInput[d] = text, !.mode[d] = "top" ])

\* "Velg alle" button, and the Ctrl+A shortcut with the focus in the value
\* list of card d: every visible item is selected
SelectAllOn(d) ==
  ButtonHandler([ Dom EXCEPT
                    !.mode[d] = "specific",
                    !.selected[d] = @ \cup { items[d][i].code : i \in 1..Len(items[d]) } ])

SelectAllVisible == CardsShown /\ \E d \in Cards(Dom) : SelectAllOn(d)

\* keydown of Ctrl/Cmd+A while the focus is inside a value list
SelectAllShortcut == CardsShown /\ \E d \in Cards(Dom) : SelectAllOn(d)

\* "Opphev alle" button
SelectNoneOn(d) ==
  ButtonHandler([ Dom EXCEPT !.mode[d] = "specific", !.selected[d] = {} ])

SelectNone == CardsShown /\ \E d \in Cards(Dom) : SelectNoneOn(d)

(***************************************************************************)
(* Codelist dropdown (setupCodelistDropdowns)                              *)
(***************************************************************************)
\* dropdown.disabled: set by the change handler and by restoreSelections
\* before their getCodeList, cleared by each of them when its call returns
DropdownDisabled(d) == dropdown[d].disabled

\* the end of the change handler without the reset
KeepSelection(s, d) == s

\* the end of the change handler with a reset of every card
ResetEverySelection(s, d) ==
  [ s EXCEPT !.mode = [ e \in DOMAIN s.mode |-> "specific" ],
             !.selected = [ e \in DOMAIN s.selected |-> {} ] ]

\* the end of the change handler: "Reset selection when switching codelist"
ResetSelection(s, d) == [ s EXCEPT !.mode[d] = "specific", !.selected[d] = {} ]

\* change to "Velg fritt blant alle verdier" (value "")
ChooseFreelyOn(d) ==
  /\ HasDropdown(tableMetadata, d) /\ ~DropdownDisabled(d)
  /\ Leave(ResetSelection(
             [ Dom EXCEPT
                 !.activeCodelists[d] = NoActive,
                 !.items[d] = renderValueList(tableMetadata, d, d \in preloaded),
                 !.elimination[d] = tableMetadata.dimension[d].elimination ], d))
  /\ activeCodelistIds' = [ activeCodelistIds EXCEPT ![d] = NoCodelist ]
  /\ errorMsg' = ""
  /\ UNCHANGED dropdown
  /\ AppUnchanged /\ UNCHANGED << lastClickedIndex, detached >>

CodelistChooseFreely == CardsShown /\ \E d \in Cards(Dom) : ChooseFreelyOn(d)

\* change to a codelist: the handler disables the dropdown and awaits getCodeList
CodelistChange ==
  /\ CardsShown
  /\ \E d \in Cards(Dom) : \E id \in SeqToSet(tableMetadata.dimension[d].codelists) :
       /\ HasDropdown(tableMetadata, d) /\ ~DropdownDisabled(d)
       /\ Len(detached) < MaxDetached
       /\ dropdown' = [ dropdown EXCEPT
                          ![d] = [ disabled |-> TRUE, fetching |-> Append(@.fetching, id) ] ]
       /\ errorMsg' = ""
       /\ UNCHANGED << tableMetadata, items, mode, selected, topInput, elimination,
                       activeCodelists, activeCodelistIds, fetchDisabled, statusText,
                       cellDisplay, urlUpdateTimer >>
       /\ AppUnchanged /\ UNCHANGED << lastClickedIndex, detached >>

\* the card after the awaited getCodeList of the change handler returned data
AppliedCodelist(s, d, active) ==
  [ s EXCEPT !.activeCodelists[d] = active,
             !.elimination[d] = active.elimination,
             !.items[d] = renderCodelistValues(active.values) ]

\* the awaited getCodeList returns (ok) or safeApiCall returns null (~ok); the
\* handler resumes, resets the selection of the card and refreshes the status
ArrivesOn(d) ==
  \E i \in 1..Len(dropdown[d].fetching), ok \in BOOLEAN :
       /\ Leave(ResetSelection(
                  IF ok
                  THEN AppliedCodelist(Dom, d,
                         InstallCodelist(tableMetadata, d, dropdown[d].fetching[i],
                                         CodelistData(dropdown[d].fetching[i])))
                  ELSE Dom, d))
       /\ activeCodelistIds' =
            IF ok THEN [ activeCodelistIds EXCEPT ![d] = dropdown[d].fetching[i] ]
            ELSE activeCodelistIds
       /\ errorMsg' = IF ok THEN "" ELSE "Kunne ikke laste kodeliste"
       /\ dropdown' = [ dropdown EXCEPT
                          ![d] = [ disabled |-> FALSE,
                                   fetching |-> SubSeq(@.fetching, 1, i - 1)
                                                  \o SubSeq(@.fetching, i + 1,
                                                            Len(@.fetching)) ] ]
       /\ AppUnchanged /\ UNCHANGED << lastClickedIndex, detached >>

CodelistArrives == CardsShown /\ \E d \in Cards(Dom) : ArrivesOn(d)

(***************************************************************************)
(* The variables view on its own                                           *)
(***************************************************************************)
SelTables == { "t_region", "t_tid", "t_alder", "t_aar", "t_par", "t_stor" }

InitSel == \E t \in SelTables : InitOn(t)

NextSel ==
  \/ OpenVariables
  \/ RestoreCodelistDone
  \/ ClickItem
  \/ SelectStar
  \/ SelectTop
  \/ EditTopInput
  \/ SelectAllVisible
  \/ SelectAllShortcut
  \/ SelectNone
  \/ CodelistChooseFreely
  \/ CodelistChange
  \/ CodelistArrives

SpecSel == InitSel /\ [][NextSel]_vars

(***************************************************************************)
(* Changing tables: the back button of the variables view, the table list, *)
(* and the change handlers of cards that have left the document            *)
(***************************************************************************)
\* #back-to-browser of the variables view: AppState.resetTableState() and
\* history.back(), or navigateTo('home') without a history; the table list
\* replaces the view.  Taken once restoreSelections has returned.
LeaveVariables ==
  /\ view = "variables" /\ phase \in { "ready", "failed" }
  /\ Loaded(HomeHash)
  /\ variableSelection' = EmptyQuery
  /\ activeCodelistIds' = NoIds(Meta(table))
  /\ tableLayout' = EmptyLayout
  /\ view' = "home"
  /\ phase' = "idle"
  /\ SetDom(WithoutCards(Dom))
  /\ FreshStatus
  /\ errorMsg' = ""
  /\ dropdown' = NoCards
  /\ detached' = detached \o Detach(dropdown)
  /\ UNCHANGED << services, table, extraction, lastClickedIndex, restoreQueue, preloaded, currentData,
                  rendered, dialog, request, probe >>

\* the tables of the list
NavTables == { "t_tid", "t_aar", "t_alder", "t_par" }

\* BrowserState.selectTable: setSelectedTable (no saved selection, no saved
\* codelist ids), then the variables view of table t
SelectTable ==
  /\ view = "home"
  /\ \E t \in NavTables : \E metaOk \in BOOLEAN,
                               pre \in SUBSET PreloadableDims(Meta(t)) :
       /\ table' = t
       /\ UNCHANGED << services, extraction >>
       /\ navigateTo(buildHash("variables", t, EmptyQuery, NoIds(Meta(t)), EmptyLayout),
                     TRUE)
       /\ variableSelection' = EmptyQuery
       /\ activeCodelistIds' = NoIds(Meta(t))
       /\ lastClickedIndex' =
            [ d \in DOMAIN lastClickedIndex \cup Dims(Meta(t)) |->
                IF d \in DOMAIN lastClickedIndex THEN lastClickedIndex[d] ELSE 0 ]
       /\ renderVariableSelection(Meta(t), EmptyQuery, NoIds(Meta(t)), metaOk, pre)

\* tableMetadata.dimension[dimCode] of the change handler: undefined (the
\* handler's catch takes over) unless the loaded metadata has the dimension
HasDimension(meta, dimCode) == meta.loaded /\ dimCode \in Dims(meta)

\* the awaited getCodeList of a change handler returns after its card has left
\* the document: the handler resumes on the module variables tableMetadata and
\* activeCodelists and on AppState as they are now, applies the list and the
\* reset to its own card, and ends with updateSelectionStatus() on the
\* document as it is now
DetachedArrives ==
  \E i \in 1..Len(detached), ok \in BOOLEAN :
    LET f == detached[i]
        installs == ok /\ HasDimension(tableMetadata, f.dim)
        s1 == IF installs
              THEN [ Dom EXCEPT !.activeCodelists[f.dim] =
                       InstallCodelist(tableMetadata, f.dim, f.id, CodelistData(f.id)) ]
              ELSE Dom
    IN  /\ SetDom(s1)
        /\ IF view = "variables"
           THEN updateSelectionStatus(s1)
           ELSE UNCHANGED << fetchDisabled, statusText, cellDisplay, urlUpdateTimer >>
        /\ activeCodelistIds' =
             IF installs
             THEN [ d \in DOMAIN activeCodelistIds \cup { f.dim } |->
                      IF d = f.dim THEN f.id ELSE activeCodelistIds[d] ]
             ELSE activeCodelistIds
        /\ errorMsg' = IF ok THEN "" ELSE "Kunne ikke laste kodeliste"
        /\ detached' = SubSeq(detached, 1, i - 1) \o SubSeq(detached, i + 1, Len(detached))
        /\ UNCHANGED << dropdown, lastClickedIndex >>
        /\ AppUnchanged

InitNav == \E t \in NavTables : InitOn(t)

NextNav ==
  \/ SelectTable
  \/ LeaveVariables
  \/ SelectStar
  \/ CodelistChooseFreely
  \/ CodelistChange
  \/ CodelistArrives
  \/ DetachedArrives

SpecNav == InitNav /\ [][NextNav]_vars

(***************************************************************************)
(* The table view: handleFetchData, the table/<tableId> route,             *)
(* renderTableDisplay, loadTableData, determineDefaultLayout, displayData  *)
(***************************************************************************)
WithoutIndex(s, i) == SubSeq(s, 1, i - 1) \o SubSeq(s, i + 1, Len(s))

InsertAt(s, k, x) == SubSeq(s, 1, k - 1) \o << x >> \o SubSeq(s, k, Len(s))

\* dimensions.findIndex(d => d === 'Tid' || ...), 1-based, 0 for -1
TimeDimIndex(dimensions) ==
  IF \E i \in 1..Len(dimensions) : IsTimeDim(dimensions[i])
  THEN CHOOSE i \in 1..Len(dimensions) :
         IsTimeDim(dimensions[i]) /\ \A j \in 1..(i - 1) : ~IsTimeDim(dimensions[j])
  ELSE 0

TimeInRows(dimensions, t) ==
  [ rows |-> << dimensions[t] >>, columns |-> WithoutIndex(dimensions, t) ]

determineDefaultLayout(dimensions) ==
  IF TimeDimIndex(dimensions) # 0
  THEN TimeInRows(dimensions, TimeDimIndex(dimensions))
  ELSE IF Len(dimensions) > 1
       THEN [ rows |-> SubSeq(dimensions, 1, Len(dimensions) - 1),
              columns |-> << dimensions[Len(dimensions)] >> ]
       ELSE [ rows |-> << >>, columns |-> dimensions ]

\* The data service.  The response to a query has the dimensions that are
\* keys of the query, in the order of the table, each with as many categories
\* as the query selects; a query without a mandatory dimension is rejected.
SizeOf(count, value) ==
  CASE value.kind = "star" -> count
    [] value.kind = "top" -> Min(value.n, count)
    [] OTHER -> Len(value.codes)

\* the category indices 0..n-1 in ascending order
IndexOrder(n) == [ k \in 1..n |-> k - 1 ]

\* the responses of the flow enumerate their categories in index order
CubeWith(meta, q, ids) ==
  [ loaded |-> TRUE,
    id |-> ids,
    size |-> [ i \in 1..Len(ids) |-> SizeOf(meta.dimension[ids[i]].count, q[ids[i]]) ],
    keys |-> [ i \in 1..Len(ids) |->
                 IndexOrder(SizeOf(meta.dimension[ids[i]].count, q[ids[i]])) ] ]

CubeOf(meta, q) == CubeWith(meta, q, SelectSeq(meta.id, LAMBDA d : d \in DOMAIN q))

ServiceAccepts(meta, q) ==
  \A d \in Dims(meta) : meta.dimension[d].elimination \/ ~EmptyDimSelection(q, d)

DataOutcomes(meta, q) ==
  { "error", "empty" } \cup (IF ServiceAccepts(meta, q) THEN { "data" } ELSE {})

LayoutDims(layout) == layout.rows \o layout.columns

\* displayData -> buildHtmlTable: data.dimension[dimCode] of a layout
\* dimension the cube lacks is undefined and reading it throws, so the
\* container is not rendered
displayData(layout, data) ==
  IF \A i \in 1..Len(LayoutDims(layout)) : InSeq(LayoutDims(layout)[i], data.id)
  THEN "table" ELSE "crashed"

\* existingLayout && (rows.length > 0 || columns.length > 0)
hasPresetLayout(existingLayout) ==
  Len(existingLayout.rows) > 0 \/ Len(existingLayout.columns) > 0

LayoutFor(existingLayout, data) ==
  IF hasPresetLayout(existingLayout) THEN existingLayout
  ELSE determineDefaultLayout(data.id)

\* renderTableDisplay up to the awaited api.getTableData of loadTableData
renderTableDisplay(selection, via) ==
  /\ view' = "table"
  /\ phase' = "loading"
  /\ rendered' = "loading"
  /\ request' = [ sent |-> TRUE, selection |-> selection, via |-> via ]
  /\ SetDom(WithoutCards(Dom))
  /\ FreshStatus
  /\ errorMsg' = ""
  /\ restoreQueue' = << >>
  /\ dropdown' = NoCards
  /\ detached' = detached \o Detach(dropdown)
  /\ UNCHANGED << services, table, extraction, lastClickedIndex,
                  preloaded, currentData, dialog, probe >>

\* click on the fetch button; the handler is attached once loadTableMetadata
\* has returned
handleFetchData ==
  /\ view = "variables" /\ phase = "ready" /\ ~fetchDisabled
  /\ IF ~validateSelection(Dom, getVariableSelection(Dom))
     THEN /\ errorMsg' = "Velg verdier for alle obligatoriske variabler"
          /\ UNCHANGED << services, table, extraction, lastClickedIndex, detached,
                          tableMetadata, view, phase, items, mode, selected,
                          topInput, elimination, activeCodelists, activeCodelistIds,
                          dropdown, restoreQueue, preloaded, fetchDisabled,
                          statusText, cellDisplay, urlUpdateTimer, variableSelection, tableLayout,
                          currentData, rendered, dialog, request, probe, location >>
     ELSE /\ variableSelection' = getVariableSelection(Dom)
          /\ navigateTo(buildHash("table", table, getVariableSelection(Dom),
                                  activeCodelistIds, tableLayout), TRUE)
          /\ renderTableDisplay(getVariableSelection(Dom), "button")
          /\ UNCHANGED << activeCodelistIds, tableLayout >>

\* the l parameter of a table/<tableId> URL (EmptyLayout: no l parameter)
RouteLayouts ==
  { EmptyLayout,
    [ rows |-> << "Kjonn" >>, columns |-> << "ContentsCode" >> ],
    [ rows |-> << "Landbakgrunn" >>, columns |-> << "Kjonn", "ContentsCode" >> ],
    [ rows |-> << "Kjonn", "ContentsCode" >>, columns |-> << "Kjonn" >> ] }

\* URLRouter._handleTableRoute: a table/<tableId> URL with a non-empty v
handleTableRoute ==
  /\ view = "home"
  /\ \E r \in Routes(table), l \in RouteLayouts :
       /\ DOMAIN r.v # {}
       /\ variableSelection' = r.v
       /\ activeCodelistIds' = r.c
       /\ tableLayout' = l
       /\ Loaded(buildHash("table", table, r.v, r.c, l))
       /\ renderTableDisplay(r.v, "route")

\* loadTableData after the awaited api.getTableData
ShowData(data, layout) ==
  /\ currentData' = data
  /\ tableLayout' = layout
  /\ rendered' = displayData(layout, data)
  /\ errorMsg' = ""

loadTableData ==
  /\ view = "table" /\ phase = "loading"
  /\ \E outcome \in DataOutcomes(Meta(table), request.selection) :
       CASE outcome = "error" ->
              /\ errorMsg' = "Kunne ikke hente data fra API"
              /\ UNCHANGED << currentData, tableLayout, rendered >>
         [] outcome = "empty" ->
              /\ errorMsg' = ""
              /\ rendered' = "noData"
              /\ UNCHANGED << currentData, tableLayout >>
         [] OTHER ->
              ShowData(CubeOf(Meta(table), request.selection),
                       LayoutFor(tableLayout, CubeOf(Meta(table), request.selection)))
  /\ phase' = "shown"
  /\ UNCHANGED << services, table, extraction, lastClickedIndex, detached,
                  tableMetadata, view, items, mode, selected, topInput,
                  elimination, activeCodelists, activeCodelistIds, dropdown,
                  restoreQueue, preloaded, fetchDisabled, statusText, cellDisplay, urlUpdateTimer,
                  location, variableSelection, dialog, request, probe >>

NoOverlay == view = "table" /\ phase = "shown" /\ ~dialog.open

\* #back-to-variables
BackToVariables ==
  /\ NoOverlay
  /\ \E metaOk \in BOOLEAN, pre \in SUBSET PreloadableDims(Meta(table)) :
       /\ UNCHANGED << services, table, extraction, lastClickedIndex, variableSelection, activeCodelistIds >>
       /\ navigateTo(buildHash("variables", table, variableSelection, activeCodelistIds,
                               EmptyLayout), TRUE)
       /\ renderVariableSelection(Meta(table), variableSelection, activeCodelistIds,
                                  metaOk, pre)

\* #back-to-browser: currentData = null, AppState.resetTableState(), home
BackToBrowser ==
  /\ NoOverlay
  /\ navigateTo(HomeHash, TRUE)
  /\ currentData' = NoData
  /\ variableSelection' = EmptyQuery
  /\ activeCodelistIds' = NoIds(Meta(table))
  /\ tableLayout' = EmptyLayout
  /\ view' = "home"
  /\ phase' = "idle"
  /\ rendered' = "none"
  /\ errorMsg' = ""
  /\ UNCHANGED << services, table, extraction, lastClickedIndex, detached,
                  tableMetadata, items, mode, selected, topInput, elimination,
                  activeCodelists, dropdown, restoreQueue, preloaded,
                  fetchDisabled, statusText, cellDisplay, urlUpdateTimer, dialog, request, probe >>

(***************************************************************************)
(* The rotation dialog (table-rotation.js)                                 *)
(***************************************************************************)
DialogUnchanged ==
  UNCHANGED << services, table, extraction, lastClickedIndex, detached,
               tableMetadata, view, phase, items, mode, selected, topInput,
               elimination, activeCodelists, activeCodelistIds, dropdown,
               restoreQueue, preloaded, fetchDisabled, statusText, cellDisplay, urlUpdateTimer,
               location, variableSelection, currentData, request >>

\* #rotate-table-btn, which displayData renders with the table
openRotationDialog ==
  /\ view = "table" /\ rendered = "table" /\ ~dialog.open
  /\ dialog' = [ open |-> TRUE, rows |-> tableLayout.rows,
                 columns |-> tableLayout.columns ]
  /\ errorMsg' = ""
  /\ UNCHANGED << tableLayout, rendered, probe >>
  /\ DialogUnchanged

Zone(dlg, z) == IF z = "row" THEN dlg.rows ELSE dlg.columns

WithZones(rows, columns) == [ open |-> TRUE, rows |-> rows, columns |-> columns ]

\* chip i of zone from, inserted into zone to before position k
Dragged(dlg, from, i, to, k) ==
  IF from = to
  THEN IF to = "row"
       THEN WithZones(InsertAt(WithoutIndex(dlg.rows, i), k, dlg.rows[i]), dlg.columns)
       ELSE WithZones(dlg.rows, InsertAt(WithoutIndex(dlg.columns, i), k, dlg.columns[i]))
  ELSE IF to = "row"
       THEN WithZones(InsertAt(dlg.rows, k, dlg.columns[i]), WithoutIndex(dlg.columns, i))
       ELSE WithZones(WithoutIndex(dlg.rows, i), InsertAt(dlg.columns, k, dlg.rows[i]))

\* a chip dragged over a drop zone (dragover inserts it before the chip
\* under the pointer or appends it) and dropped there (drop appends it) or
\* released elsewhere
DragChip ==
  /\ dialog.open
  /\ \E from \in { "row", "col" }, to \in { "row", "col" } :
       \E i \in 1..Len(Zone(dialog, from)) :
         \E k \in 1..(Len(Zone(dialog, to)) + 1) :
           /\ from = to => k <= Len(Zone(dialog, to))
           /\ dialog' = Dragged(dialog, from, i, to, k)
           /\ dialog' # dialog
  /\ UNCHANGED << errorMsg, tableLayout, rendered, probe >>
  /\ DialogUnchanged

\* the preset buttons rendered for these dimensions
Presets(dimensions) ==
  { "default", "transpose" }
    \cup (IF Len(dimensions) > 2 THEN { "all-rows", "all-cols" } ELSE {})

\* dimensions.filter((_, i) => i !== timeDimIndex)
NonTimeDims(dimensions, t) ==
  [ j \in 1..(Len(dimensions) - 1) |->
      IF j < t THEN dimensions[j] ELSE dimensions[j + 1] ]

\* the time dimension put as columns, the other dimensions as rows
DefaultPresetTimeInColumns(dimensions) ==
  IF TimeDimIndex(dimensions) # 0
  THEN [ newRows |-> NonTimeDims(dimensions, TimeDimIndex(dimensions)),
         newCols |-> << dimensions[TimeDimIndex(dimensions)] >> ]
  ELSE IF Len(dimensions) > 1
       THEN [ newRows |-> SubSeq(dimensions, 1, Len(dimensions) - 1),
              newCols |-> << dimensions[Len(dimensions)] >> ]
       ELSE [ newRows |-> << >>, newCols |-> dimensions ]

\* applyPreset, case 'default': newRows and newCols
DefaultPreset(dimensions) ==
  IF TimeDimIndex(dimensions) # 0
  THEN [ newRows |-> << dimensions[TimeDimIndex(dimensions)] >>,
         newCols |-> NonTimeDims(dimensions, TimeDimIndex(dimensions)) ]
  ELSE IF Len(dimensions) > 1
       THEN [ newRows |-> SubSeq(dimensions, 1, Len(dimensions) - 1),
              newCols |-> << dimensions[Len(dimensions)] >> ]
       ELSE [ newRows |-> << >>, newCols |-> dimensions ]

\* applyPreset with 'transpose' swapping the rows and columns of the applied
\* layout instead of the chips shown in the zones
applyPresetFromLayout(preset, dimensions, dlg) ==
  CASE preset = "default" ->
         WithZones(DefaultPreset(dimensions).newRows, DefaultPreset(dimensions).newCols)
    [] preset = "transpose" -> WithZones(tableLayout.columns, tableLayout.rows)
    [] preset = "all-rows" -> WithZones(dimensions, << >>)
    [] OTHER -> WithZones(<< >>, dimensions)

applyPreset(preset, dimensions, dlg) ==
  CASE preset = "default" ->
         WithZones(DefaultPreset(dimensions).newRows, DefaultPreset(dimensions).newCols)
    [] preset = "transpose" -> WithZones(dlg.columns, dlg.rows)
    [] preset = "all-rows" -> WithZones(dimensions, << >>)
    [] OTHER -> WithZones(<< >>, dimensions)

PresetClick ==
  /\ dialog.open
  /\ \E preset \in Presets(currentData.id) :
       dialog' = applyPreset(preset, currentData.id, dialog)
  /\ UNCHANGED << errorMsg, tableLayout, rendered, probe >>
  /\ DialogUnchanged

Count(x, s) == Cardinality({ i \in 1..Len(s) : s[i] = x })

\* a comparison of the lengths only
SameLength(allDims, expectedDims) == Len(allDims) = Len(expectedDims)

\* JSON.stringify([...].sort()) of both lists are the same text
SameSorted(allDims, expectedDims) ==
  /\ Len(allDims) = Len(expectedDims)
  /\ \A x \in SeqToSet(allDims) \cup SeqToSet(expectedDims) :
        Count(x, allDims) = Count(x, expectedDims)

\* applyRotation with the chips of the two zones; displayData rebuilds
\* every cell of the table
applyRotation(newRows, newCols) ==
  IF ~SameSorted(newRows \o newCols, currentData.id)
  THEN /\ errorMsg' = "Alle dimensjoner må være enten i rader eller kolonner"
       /\ UNCHANGED << tableLayout, dialog, rendered, probe >>
  ELSE IF Len(newRows) = 0 /\ Len(newCols) = 0
       THEN /\ errorMsg' = "Tabellen må ha minst én dimensjon"
            /\ UNCHANGED << tableLayout, dialog, rendered, probe >>
       ELSE /\ tableLayout' = [ rows |-> newRows, columns |-> newCols ]
            /\ dialog' = NoDialog
            /\ rendered' = displayData([ rows |-> newRows, columns |-> newCols ],
                                       currentData)
            /\ probe' = NoProbe
            /\ errorMsg' = ""

\* #apply-rotation-btn
ApplyRotation ==
  /\ dialog.open
  /\ applyRotation(dialog.rows, dialog.columns)
  /\ DialogUnchanged

\* #close-rotation-dialog and #cancel-rotation-btn: overlay.remove()
CloseRotationDialog ==
  /\ dialog.open
  /\ dialog' = NoDialog
  /\ UNCHANGED << errorMsg, tableLayout, rendered, probe >>
  /\ DialogUnchanged

(***************************************************************************)
(* The application on one table: variables view, fetch, table view         *)
(***************************************************************************)
Init == InitOn("t_kjonn")

Next ==
  \/ OpenVariables
  \/ SelectStar
  \/ SelectNone
  \/ handleFetchData
  \/ handleTableRoute
  \/ loadTableData
  \/ BackToVariables
  \/ BackToBrowser
  \/ openRotationDialog
  \/ DragChip
  \/ PresetClick
  \/ ApplyRotation
  \/ CloseRotationDialog

Spec == Init /\ [][Next]_vars

(***************************************************************************)
(* Addressing the cube: buildDimensionCombinations, getDataValue,          *)
(* calculateFlatIndex.  A combination is modelled by its indices (its      *)
(* codes name the same categories).  A cube has, per dimension, its number *)
(* of categories (size) and the order in which Object.keys enumerates the  *)
(* keys of category.index (keys, as category indices): integer-like codes  *)
(* in ascending numeric order first, then the other codes in the order of  *)
(* the response.                                                           *)
(***************************************************************************)
\* data.value[k]; -1 stands for undefined (k outside the array)
ValueAt(data, k) == IF k \in 0..(ProdSeq(data.size) - 1) THEN 10 * (k + 1) ELSE -1

\* Object.keys(data.dimension[dimCode].category.index).length
CategoryCount(data, dimCode) == data.size[IndexOf(dimCode, data.id)]

\* Object.keys(data.dimension[dimCode].category.index), as category indices
CategoryKeys(data, dimCode) == data.keys[IndexOf(dimCode, data.id)]

\* newCombinations: every combination so far, extended by every category
Extended(combinations, codes) ==
  Flatten([ c \in 1..Len(combinations) |->
              [ k \in 1..Len(codes) |-> Append(combinations[c], codes[k]) ] ])

RECURSIVE buildDimensionCombinations(_, _)
buildDimensionCombinations(dimCodes, data) ==
  IF dimCodes = << >> THEN << << >> >>
  ELSE Extended(buildDimensionCombinations(SubSeq(dimCodes, 1, Len(dimCodes) - 1), data),
                CategoryKeys(data, dimCodes[Len(dimCodes)]))

\* a lookup that knows the row combination only
RowIndexOnly(layout, dimCode, rowHeader, colHeader) ==
  IF IndexOf(dimCode, layout.rows) # 0
  THEN rowHeader[IndexOf(dimCode, layout.rows)]
  ELSE 0

\* the body of the data.id.forEach of getDataValue
DimIndex(layout, dimCode, rowHeader, colHeader) ==
  IF IndexOf(dimCode, layout.rows) # 0
  THEN rowHeader[IndexOf(dimCode, layout.rows)]
  ELSE IF IndexOf(dimCode, layout.columns) # 0
       THEN colHeader[IndexOf(dimCode, layout.columns)]
       ELSE 0

\* the indices in the order of the layout: rows, then columns
LayoutOrderIndices(layout, data, rowHeader, colHeader) == rowHeader \o colHeader

FullIndices(layout, data, rowHeader, colHeader) ==
  [ i \in 1..Len(data.id) |-> DimIndex(layout, data.id[i], rowHeader, colHeader) ]

\* the loop of calculateFlatIndex, from dimension i down to the first
RECURSIVE FlatIndexLoop(_, _, _, _, _)
FlatIndexLoop(indices, sizes, i, flatIndex, multiplier) ==
  IF i < 1 THEN flatIndex
  ELSE FlatIndexLoop(indices, sizes, i - 1,
                     flatIndex + indices[i] * multiplier, multiplier * sizes[i])

\* the first dimension changes fastest
FirstFastest(indices, sizes) ==
  FlatIndexLoop(Reverse(indices), Reverse(sizes), Len(sizes), 0, 1)

calculateFlatIndex(indices, sizes) ==
  FlatIndexLoop(indices, sizes, Len(sizes), 0, 1)

getDataValue(layout, data, rowHeader, colHeader) ==
  ValueAt(data, calculateFlatIndex(FullIndices(layout, data, rowHeader, colHeader),
                                   data.size))

(***************************************************************************)
(* A displayed table: cells looked up, layout rotated                      *)
(***************************************************************************)
\* the dimension lists of the cubes
CubeIds == { << "Sex" >>, << "Sex", "Year" >>, << "Kjonn", "Alder", "Tid" >> }

StarQuery(ids) == [ d \in SeqToSet(ids) |-> StarValue ]

\* a table/<tableId> URL was opened and loadTableData has displayed the cube
CubeShown(ids, sizes, keys) ==
    /\ table = "t_cube"
    /\ tableMetadata = NoMetadata
    /\ view = "table"
    /\ phase = "shown"
    /\ items = NoCards
    /\ mode = NoCards
    /\ selected = NoCards
    /\ topInput = NoCards
    /\ elimination = NoCards
    /\ activeCodelists = NoCards
    /\ activeCodelistIds = NoCards
    /\ dropdown = NoCards
    /\ lastClickedIndex = NoCards
    /\ detached = << >>
    /\ restoreQueue = << >>
    /\ preloaded = {}
    /\ fetchDisabled = TRUE
    /\ statusText = "initial"
    /\ cellDisplay = NoCellDisplay
    /\ errorMsg = ""
    /\ variableSelection = StarQuery(ids)
    /\ tableLayout = determineDefaultLayout(ids)
    /\ currentData = [ loaded |-> TRUE, id |-> ids, size |-> sizes, keys |-> keys ]
    /\ rendered = "table"
    /\ dialog = NoDialog
    /\ request = [ sent |-> TRUE, selection |-> StarQuery(ids), via |-> "route" ]
    /\ probe = NoProbe
    /\ extraction = NoExtraction
    /\ urlUpdateTimer = << >>
    /\ location = [ hash |-> buildHash("table", "t_cube", StarQuery(ids), NoCards,
                                       EmptyLayout),
                    how |-> "load" ]
    /\ ServicesIdle

\* the last category has the only integer-like code and is enumerated first;
\* the displayed cubes have at most one such dimension
IntegerKeyFirst(n) == [ k \in 1..n |-> IF k = 1 THEN n - 1 ELSE k - 2 ]

InitCube ==
  \E ids \in CubeIds : \E sizes \in [ 1..Len(ids) -> 1..MaxSize ] :
    \E first \in 0..Len(ids) :
      /\ ProdSeq(sizes) <= MaxValues
      /\ CubeShown(ids, sizes,
                   [ i \in 1..Len(ids) |->
                       IF i = first THEN IntegerKeyFirst(sizes[i])
                       ELSE IndexOrder(sizes[i]) ])

Probed(layout, data, rowHeader, colHeader) ==
  [ asked |-> TRUE, row |-> rowHeader, col |-> colHeader,
    flat |-> calculateFlatIndex(FullIndices(layout, data, rowHeader, colHeader),
                                data.size),
    value |-> getDataValue(layout, data, rowHeader, colHeader) ]

\* one data cell of buildHtmlTable: getDataValue(rowHeader, colHeader)
RenderCell ==
  /\ view = "table" /\ rendered = "table" /\ ~dialog.open
  /\ \E r \in 1..Len(buildDimensionCombinations(tableLayout.rows, currentData)),
        c \in 1..Len(buildDimensionCombinations(tableLayout.columns, currentData)) :
       probe' = Probed(tableLayout, currentData,
                       buildDimensionCombinations(tableLayout.rows, currentData)[r],
                       buildDimensionCombinations(tableLayout.columns, currentData)[c])
  /\ UNCHANGED << errorMsg, tableLayout, rendered, dialog >>
  /\ DialogUnchanged

\* the orders of the chips over the two zones of the dialog
ChipOrders(D) == { p \in [ 1..Len(D) -> SeqToSet(D) ] : NoDup(p) }

\* the rotation dialog opened, the chips arranged (drags, presets) and
\* "Bruk layout" clicked
RotateTo ==
  /\ view = "table" /\ rendered = "table" /\ ~dialog.open
  /\ \E p \in ChipOrders(currentData.id), k \in 0..Len(currentData.id) :
       applyRotation(SubSeq(p, 1, k), SubSeq(p, k + 1, Len(p)))
  /\ DialogUnchanged

NextCube ==
  \/ RenderCell
  \/ RotateTo

SpecCube == InitCube /\ [][NextCube]_vars

(***************************************************************************)
(* The rotation dialog over displayed cubes with and without a time        *)
(* dimension                                                               *)
(***************************************************************************)
\* the dimension lists of the displayed cubes
DialogIds ==
  { << "Sex" >>, << "Tid" >>, << "Sex", "Year" >>, << "Tid", "Sex" >>,
    << "Sex", "Tid" >>, << "Sex", "Year", "Alder" >>, << "Tid", "Kjonn", "Alder" >>,
    << "Kjonn", "Tid", "Alder" >>, << "Kjonn", "Alder", "Tid" >> }

InitDialog ==
  \E ids \in DialogIds :
    CubeShown(ids, [ i \in 1..Len(ids) |-> 1 ], [ i \in 1..Len(ids) |-> IndexOrder(1) ])

NextDialog ==
  \/ openRotationDialog
  \/ DragChip
  \/ PresetClick
  \/ ApplyRotation
  \/ CloseRotationDialog

SpecDialog == InitDialog /\ [][NextDialog]_vars

(***************************************************************************)
(* extractCodelistCodes on the responses of the codelist service           *)
(***************************************************************************)
\* the entries of a response: objects whose code is missing (0) or present,
\* and whose valueMap is absent, not an array or empty (<< >>) or an array of
\* codes: the entry's own code, another code, several codes
EntryCodes == { 0, 1, 101 }

EntryValueMaps == { << >>, << 1 >>, << 2 >>, << 1, 2 >>, << 2, 3 >> }

Entries == { [ code |-> c, valueMap |-> m ] : c \in EntryCodes, m \in EntryValueMaps }

RECURSIVE SeqsUpTo(_, _)
SeqsUpTo(S, n) ==
  IF n = 0 THEN { << >> }
  ELSE SeqsUpTo(S, n - 1)
         \cup { Append(q, x) : q \in { r \in SeqsUpTo(S, n - 1) : Len(r) = n - 1 }, x \in S }

\* the responses: without a values array, or with up to MaxEntries entries
Responses ==
  { [ elimination |-> FALSE, hasValues |-> FALSE, values |-> << >> ] }
    \cup { [ elimination |-> FALSE, hasValues |-> TRUE, values |-> v ] :
             v \in SeqsUpTo(Entries, MaxEntries) }

InitExtract == InitOn("t_region")

\* the variables and table views are left alone
PagesUnchanged ==
  UNCHANGED << table, tableMetadata, view, phase, items, mode, selected, topInput,
               elimination, activeCodelists, activeCodelistIds, dropdown,
               lastClickedIndex, detached, restoreQueue, preloaded, fetchDisabled,
               statusText, cellDisplay, urlUpdateTimer, errorMsg,
               variableSelection, tableLayout, currentData, rendered, dialog,
               request, probe >>

\* what a call that touches no view leaves alone
ViewsUnchanged == PagesUnchanged /\ UNCHANGED location

\* a handler calls extractCodelistCodes(codelistData)
CallExtract ==
  /\ ~extraction.called
  /\ \E codelistData \in Responses :
       extraction' = [ extraction EXCEPT !.called = TRUE,
                                         !.codelistData = codelistData ]
  /\ ViewsUnchanged /\ UNCHANGED services

\* extractCodelistCodes returns
ReturnExtract ==
  /\ extraction.called /\ ~extraction.returned
  /\ extraction' = [ extraction EXCEPT
                       !.returned = TRUE,
                       !.result = extractCodelistCodes(extraction.codelistData) ]
  /\ ViewsUnchanged /\ UNCHANGED services

NextExtract ==
  \/ CallExtract
  \/ ReturnExtract

SpecExtract == InitExtract /\ [][NextExtract]_vars

(***************************************************************************)
(* The round trip: variables view, fetch, table view, "Endre variabelvalg" *)
(***************************************************************************)
\* The responses awaited by the handlers of cards that the fetch button has
\* replaced stay pending.
TripTables == { "t_region", "t_aar" }

InitTrip == \E t \in TripTables : InitOn(t)

NextTrip ==
  \/ OpenVariables
  \/ RestoreCodelistDone
  \/ ClickItem
  \/ SelectStar
  \/ SelectTop
  \/ EditTopInput
  \/ SelectNone
  \/ CodelistChooseFreely
  \/ CodelistChange
  \/ CodelistArrives
  \/ handleFetchData
  \/ loadTableData
  \/ BackToVariables

SpecTrip == InitTrip /\ [][NextTrip]_vars

(***************************************************************************)
(* The debounced URL update (variable-select-state.js).  The timeout of    *)
(* debouncedURLUpdate is never cleared by a change of view, so its         *)
(* callback runs in whatever view is current 500 ms after the last         *)
(* updateSelectionStatus().                                                *)
(***************************************************************************)
\* the milliseconds one step of the clock takes
TickMs == 250

\* what the clock and the callback of the timeout leave alone
TimerUnchanged ==
  UNCHANGED << table, tableMetadata, view, phase, items, mode, selected, topInput,
               elimination, activeCodelists, activeCodelistIds, dropdown,
               lastClickedIndex, detached, restoreQueue, preloaded, fetchDisabled,
               statusText, cellDisplay, errorMsg, variableSelection, tableLayout,
               currentData, rendered, dialog, request, probe, extraction, services >>

\* time passes while the timeout is pending
Tick ==
  /\ urlUpdateTimer # << >>
  /\ urlUpdateTimer[1] < DebounceMs
  /\ urlUpdateTimer' = << Min(urlUpdateTimer[1] + TickMs, DebounceMs) >>
  /\ UNCHANGED location
  /\ TimerUnchanged

\* the hash the callback of the timeout builds: the selection read from the
\* document (no v without cards) and AppState.activeCodelistIds
TimerHash ==
  buildHash("variables", table, getVariableSelection(Dom), activeCodelistIds,
            EmptyLayout)

\* the callback of the timeout, once its delay has passed: nothing while
\* AppState.selectedTable is null, else navigateTo(.., false)
UrlTimerFires ==
  /\ urlUpdateTimer = << DebounceMs >>
  /\ urlUpdateTimer' = << >>
  /\ IF view = "home" THEN UNCHANGED location
     ELSE navigateTo(TimerHash, FALSE)
  /\ TimerUnchanged

UrlTables == { "t_aar" }

InitUrl == \E t \in UrlTables : InitOn(t)

NextUrl ==
  \/ OpenVariables
  \/ RestoreCodelistDone
  \/ ClickItem
  \/ SelectStar
  \/ SelectNone
  \/ CodelistChange
  \/ CodelistArrives
  \/ LeaveVariables
  \/ handleFetchData
  \/ loadTableData
  \/ BackToVariables
  \/ BackToBrowser
  \/ Tick
  \/ UrlTimerFires

SpecUrl == InitUrl /\ [][NextUrl]_vars

(***************************************************************************)
(* BrowserState.init (browser-state.js): the table list is fetched once,   *)
(* whoever asks for it.  A caller is any view awaiting BrowserState.init().*)
(***************************************************************************)
\* how many times api.getTables is called at most
MaxFetches == 3

\* what BrowserState.init and _doInit leave alone
BrowserFrame ==
  ViewsUnchanged /\ UNCHANGED << extraction, searchState, throttleState, cacheState >>

\* init() with the test of _initPromise left out: every call while the
\* list is not loaded starts _doInit
initWithoutPromiseTest(c) ==
  /\ callers[c].pc = "idle"
  /\ IF isLoaded
     THEN /\ callers' = [ callers EXCEPT ![c] = [ pc |-> "returned", p |-> 0 ] ]
          /\ UNCHANGED << initPromise, promises, fetches >>
     ELSE /\ fetches < MaxFetches
          /\ fetches' = fetches + 1
          /\ promises' = Append(promises, "pending")
          /\ initPromise' = Len(promises) + 1
          /\ callers' = [ callers EXCEPT
                            ![c] = [ pc |-> "awaiting", p |-> Len(promises) + 1 ] ]
  /\ UNCHANGED isLoaded

\* init(): nothing when the list is loaded; the promise of the _doInit in
\* flight when there is one; else _doInit() up to its awaited api.getTables,
\* its promise kept in _initPromise and awaited
init(c) ==
  /\ callers[c].pc = "idle"
  /\ IF isLoaded
     THEN /\ callers' = [ callers EXCEPT ![c] = [ pc |-> "returned", p |-> 0 ] ]
          /\ UNCHANGED << initPromise, promises, fetches >>
     ELSE IF initPromise # 0
     THEN /\ callers' = [ callers EXCEPT ![c] = [ pc |-> "awaiting", p |-> initPromise ] ]
          /\ UNCHANGED << initPromise, promises, fetches >>
     ELSE /\ fetches < MaxFetches
          /\ fetches' = fetches + 1
          /\ promises' = Append(promises, "pending")
          /\ initPromise' = Len(promises) + 1
          /\ callers' = [ callers EXCEPT
                            ![c] = [ pc |-> "awaiting", p |-> Len(promises) + 1 ] ]
  /\ UNCHANGED isLoaded

CallInit ==
  /\ \E c \in Callers : init(c)
  /\ BrowserFrame

\* _doInit after its awaited api.getTables: the list and the hierarchy are
\* built and isLoaded set, or the catch clears _initPromise and rethrows
DoInitSettles ==
  /\ \E p \in 1..Len(promises), ok \in BOOLEAN :
       /\ promises[p] = "pending"
       /\ promises' = [ promises EXCEPT ![p] = IF ok THEN "fulfilled" ELSE "rejected" ]
       /\ isLoaded' = (isLoaded \/ ok)
       /\ initPromise' = IF ok THEN initPromise ELSE 0
  /\ UNCHANGED << callers, fetches >>
  /\ BrowserFrame

\* a caller resumes after its await: init() has returned, or has thrown
CallerResumes ==
  /\ \E c \in Callers :
       /\ callers[c].pc = "awaiting"
       /\ promises[callers[c].p] # "pending"
       /\ callers' = [ callers EXCEPT
                         ![c].pc = IF promises[callers[c].p] = "fulfilled"
                                   THEN "returned" ELSE "threw" ]
  /\ UNCHANGED << isLoaded, initPromise, promises, fetches >>
  /\ BrowserFrame

\* the caller is done with the outcome, and may call again
CallerDone ==
  /\ \E c \in Callers :
       /\ callers[c].pc \in { "returned", "threw" }
       /\ callers' = [ callers EXCEPT ![c] = [ pc |-> "idle", p |-> 0 ] ]
  /\ UNCHANGED << isLoaded, initPromise, promises, fetches >>
  /\ BrowserFrame

InitBrowser == InitOn("t_aar")

NextBrowser ==
  \/ CallInit
  \/ DoInitSettles
  \/ CallerResumes
  \/ CallerDone

SpecBrowser == InitBrowser /\ [][NextBrowser]_vars

(***************************************************************************)
(* The search view (_searchPerformSearch).  The list is loaded and         *)
(* #search-content-area is in the document.                                *)
(***************************************************************************)
\* how many searches are performed at most
MaxSearches == 3

\* the texts of #page-search after trim(), "" for none
Queries == { "", "bnp", "lonn" }

\* what the search view leaves alone
SearchFrame ==
  PagesUnchanged /\ UNCHANGED << extraction, browserState, throttleState, cacheState >>

\* the hash of the search view: BrowserState.searchFiltersToParams(), with
\* one parameter for the subject, frequency and updated filters and
\* #include-discontinued left checked
SearchHash(query, enhanced, filtered) ==
  [ route |-> "search", q |-> query, enh |-> enhanced, filters |-> filtered ]

\* the enhanced branch increments _searchToken and awaits api.getTables
IsEnhanced(call) == call.enhanced /\ call.query # ""

\* _searchPerformSearch up to its awaited api.getTables, or to its end:
\* the welcome text without query and filter, else the client-side results;
\* filtered: one of the subject, frequency and updated filters is set
_searchPerformSearch(query, enhanced, filtered) ==
  LET call == [ query |-> query, enhanced |-> enhanced ]
      n == Len(searchCalls) + 1
  IN  /\ searchCalls' = Append(searchCalls, call)
      /\ navigateTo(SearchHash(query, enhanced, filtered), FALSE)
      /\ searchResults' =
           [ kind |-> IF query = "" /\ ~filtered THEN "welcome" ELSE "client",
             call |-> n ]
      /\ IF IsEnhanced(call)
         THEN /\ searchToken' = searchToken + 1
              /\ serverCalls' = serverCalls \cup { [ call |-> n, myToken |-> searchToken + 1 ] }
         ELSE UNCHANGED << searchToken, serverCalls >>

PerformSearch ==
  /\ Len(searchCalls) < MaxSearches
  /\ \E query \in Queries, enhanced \in BOOLEAN, filtered \in BOOLEAN :
       _searchPerformSearch(query, enhanced, filtered)
  /\ SearchFrame

\* _searchPerformSearch after its awaited api.getTables: nothing after an
\* error or when the token has moved on; else the combined results are
\* rendered if the server found tables the client-side results lack
ServerResultsArrive ==
  /\ \E f \in serverCalls, outcome \in { "extras", "none", "error" } :
       /\ serverCalls' = serverCalls \ { f }
       /\ searchResults' =
            IF outcome = "extras" /\ f.myToken = searchToken
            THEN [ kind |-> "combined", call |-> f.call ]
            ELSE searchResults
  /\ UNCHANGED << searchToken, searchCalls, location >>
  /\ SearchFrame

InitSearch == InitOn("t_aar")

NextSearch ==
  \/ PerformSearch
  \/ ServerResultsArrive

SpecSearch == InitSearch /\ [][NextSearch]_vars

(***************************************************************************)
(* SSBApi._throttledFetch (api.js).  The page is loaded more than 100 ms   *)
(* after time 0 of Date.now(), so the first request never waits.           *)
(***************************************************************************)
\* the milliseconds one step of the clock takes
ClockStepMs == 50

\* the clock stops here
MaxClockMs == 400

\* what _throttledFetch leaves alone
ThrottleFrame ==
  ViewsUnchanged /\ UNCHANGED << extraction, browserState, searchState, cacheState >>

\* this._lastRequestTime = Date.now(); return fetch(url, options)
SendRequest(r, waited) ==
  /\ lastRequestTime' = clock
  /\ sentAt' = Append(sentAt, [ at |-> clock, waited |-> waited ])
  /\ throttled' = [ throttled EXCEPT ![r] = [ pc |-> "sent", wake |-> 0 ] ]

\* _throttledFetch up to its await, or to its fetch when the last request is
\* 100 ms old: the timeout is set for the rest of the 100 ms
_throttledFetch(r) ==
  IF clock - lastRequestTime < ThrottleMs
  THEN /\ throttled' = [ throttled EXCEPT
                           ![r] = [ pc |-> "waiting",
                                    wake |-> clock + (ThrottleMs - (clock - lastRequestTime)) ] ]
       /\ UNCHANGED << lastRequestTime, sentAt >>
  ELSE SendRequest(r, FALSE)

\* a request method of SSBApi reaches _throttledFetch
CallThrottledFetch ==
  /\ \E r \in Requests : throttled[r].pc = "idle" /\ _throttledFetch(r)
  /\ UNCHANGED clock
  /\ ThrottleFrame

\* the timeout of a waiting call has expired: _throttledFetch after its await
TimeoutEnds ==
  /\ \E r \in Requests :
       /\ throttled[r].pc = "waiting"
       /\ clock >= throttled[r].wake
       /\ SendRequest(r, TRUE)
  /\ UNCHANGED clock
  /\ ThrottleFrame

\* time passes
ClockTick ==
  /\ clock + ClockStepMs <= MaxClockMs
  /\ clock' = clock + ClockStepMs
  /\ UNCHANGED << lastRequestTime, throttled, sentAt >>
  /\ ThrottleFrame

InitThrottle == InitOn("t_aar")

NextThrottle ==
  \/ CallThrottledFetch
  \/ TimeoutEnds
  \/ ClockTick

SpecThrottle == InitThrottle /\ [][NextThrottle]_vars

(***************************************************************************)
(* CacheManager.set and get (cache.js), for one key.  A value is known by  *)
(* an id and by the length of its serialized item; IndexedDB is available  *)
(* when it is read.  The awaits of a call are taken in one step.           *)
(***************************************************************************)
\* how many different values of each size are cached
MaxValueIds == 2

CacheValues ==
  [ id : 1..MaxValueIds, bytes : { LargeSizeThreshold - 1, LargeSizeThreshold } ]

\* what the CacheManager leaves alone
CacheFrame ==
  ViewsUnchanged /\ UNCHANGED << extraction, browserState, searchState, throttleState >>

\* sizeBytes >= this.largeSizeThreshold
IsLarge(value) == value.bytes >= LargeSizeThreshold

Stored(value) == [ value |-> value, fresh |-> TRUE ]

\* set(key, value, ttlMs); the outcomes of its storage calls are idbOk
\* (indexedDBCache.set), refOk (setItem of the reference), lsOk (setItem of
\* the item; a failure is a QuotaExceededError), othersRemoved (cleanup()
\* removes entries of other keys) and retryOk (the setItem after cleanup)
set(value, idbOk, refOk, lsOk, othersRemoved, retryOk) ==
  IF IsLarge(value)
  THEN /\ idbItem' = IF idbOk THEN Stored(value) ELSE idbItem
       /\ lsRef' = (lsRef \/ (idbOk /\ refOk))
       /\ UNCHANGED lsItem
  ELSE IF lsOk
  THEN /\ lsItem' = Stored(value)
       /\ UNCHANGED << lsRef, idbItem >>
  ELSE LET cleaned == IF lsItem # NoItem /\ ~lsItem.fresh THEN NoItem ELSE lsItem
           removed == cleaned # lsItem \/ othersRemoved
       IN  IF removed /\ retryOk
           THEN /\ lsItem' = Stored(value)
                /\ UNCHANGED << lsRef, idbItem >>
           ELSE /\ lsItem' = cleaned
                /\ idbItem' = IF idbOk THEN Stored(value) ELSE idbItem
                /\ lsRef' = (lsRef \/ (idbOk /\ refOk))

\* the set met no storage failure
NoStorageFailure(value, idbOk, refOk, lsOk) ==
  IF IsLarge(value) THEN idbOk /\ refOk ELSE lsOk

CacheSet ==
  /\ \E value \in CacheValues, idbOk \in BOOLEAN, refOk \in BOOLEAN, lsOk \in BOOLEAN,
        othersRemoved \in BOOLEAN, retryOk \in BOOLEAN :
       /\ set(value, idbOk, refOk, lsOk, othersRemoved, retryOk)
       /\ written' = IF NoStorageFailure(value, idbOk, refOk, lsOk) THEN value
                     ELSE NoValue
  /\ lastGet' = [ done |-> FALSE, value |-> NoValue ]
  /\ CacheFrame

\* get(key): with a reference, the entry of IndexedDB or null, the reference
\* removed with an entry that is missing, expired or stale; without one, the
\* item of localStorage, deleted when expired or stale
get ==
  IF lsRef
  THEN IF idbItem # NoItem /\ idbItem.fresh
       THEN /\ lastGet' = [ done |-> TRUE, value |-> idbItem.value ]
            /\ UNCHANGED << lsItem, lsRef, idbItem >>
       ELSE /\ lastGet' = [ done |-> TRUE, value |-> NoValue ]
            /\ lsRef' = FALSE
            /\ idbItem' = NoItem
            /\ UNCHANGED lsItem
  ELSE IF lsItem # NoItem /\ lsItem.fresh
       THEN /\ lastGet' = [ done |-> TRUE, value |-> lsItem.value ]
            /\ UNCHANGED << lsItem, lsRef, idbItem >>
       ELSE /\ lastGet' = [ done |-> TRUE, value |-> NoValue ]
            /\ lsItem' = NoItem
            /\ UNCHANGED << lsRef, idbItem >>

CacheGet ==
  /\ get
  /\ UNCHANGED written
  /\ CacheFrame

\* the entries of the key expire, or SSB publishes and makes them stale
EntriesAge ==
  /\ lsItem' = IF lsItem = NoItem THEN NoItem ELSE [ lsItem EXCEPT !.fresh = FALSE ]
  /\ idbItem' = IF idbItem = NoItem THEN NoItem ELSE [ idbItem EXCEPT !.fresh = FALSE ]
  /\ written' = NoValue
  /\ lastGet' = [ done |-> FALSE, value |-> NoValue ]
  /\ UNCHANGED lsRef
  /\ CacheFrame

InitCache == InitOn("t_aar")

NextCache ==
  \/ CacheSet
  \/ CacheGet
  \/ EntriesAge

SpecCache == InitCache /\ [][NextCache]_vars

(***************************************************************************)
(* Properties of the variables view                                        *)
(***************************************************************************)
\* the query the view would send now
CurrentQuery == getVariableSelection(Dom)

\* effective eliminable flag of a dimension: the codelist's effective flag
\* when one is active, the metadata flag otherwise
EffectiveEliminable(d) ==
  IF activeCodelists[d].codelistId # NoCodelist THEN activeCodelists[d].elimination
  ELSE tableMetadata.dimension[d].elimination

\* a non-empty query value: "*", "top(n)" with n >= 1, or a non-empty array
NonEmptyValue(q, d) ==
  /\ d \in DOMAIN q
  /\ \/ q[d].kind = "star"
     \/ q[d].kind = "top" /\ q[d].n >= 1
     \/ q[d].kind = "codes" /\ q[d].codes # << >>

\* C1: validateSelection(query) is true if and only if every dimension whose
\* effective eliminable flag is false has a non-empty value in the query
\* ("*", "top(n)" with n >= 1, or a non-empty code array), for every
\* combination of modes, top-n inputs and active codelists.
C1_ValidIffMandatoryNonEmpty ==
  CardsShown =>
    ( validateSelection(Dom, CurrentQuery)
        <=> \A d \in Dims(tableMetadata) :
              EffectiveEliminable(d) \/ NonEmptyValue(CurrentQuery, d) )

\* C2: in the query built by getVariableSelection, a dimension whose effective
\* eliminable flag is true and whose resolved selection is an empty code set
\* has no key at all: it is never present with an empty array.
C2_EmptyEliminableOmitted ==
  CardsShown =>
    \A d \in DOMAIN CurrentQuery :
      EffectiveEliminable(d) =>
        ~(CurrentQuery[d].kind = "codes" /\ CurrentQuery[d].codes = << >>)

\* no handler of the view is in progress
Quiescent ==
  /\ view = "variables" /\ phase = "ready"
  /\ \A d \in DOMAIN dropdown : dropdown[d].fetching = << >>

\* C3: in every quiescent state of the variables view the fetch button is
\* enabled if and only if validateSelection passes for the current query and
\* the estimated number of selected cells does not exceed maxCells.
C3_FetchEnabledIffValidWithinLimit ==
  Quiescent =>
    ( ~fetchDisabled
        <=> /\ validateSelection(Dom, CurrentQuery)
            /\ updateSelectionCellCount(Dom).selectedCells <= maxCells )

\* an over-limit selection that passes validation, with the button disabled
C3_OverLimitWitness ==
  /\ Quiescent
  /\ validateSelection(Dom, CurrentQuery)
  /\ updateSelectionCellCount(Dom).selectedCells > maxCells
  /\ fetchDisabled

\* The reference rule of the cardinality estimate, over the dimensions
\* included in the query.
RefTrueMaxCount(d) ==
  IF activeCodelists[d].codelistId # NoCodelist
  THEN Len(activeCodelists[d].originalCodes)
  ELSE tableMetadata.dimension[d].count

RefTopN(d) == IF topInput[d] = << >> THEN DefaultTopCount ELSE topInput[d][1]

RefSelectedCount(d) ==
  CASE mode[d] = "star" -> RefTrueMaxCount(d)
    [] mode[d] = "top" -> Min(RefTopN(d), RefTrueMaxCount(d))
    [] OTHER ->
         IF activeCodelists[d].codelistId # NoCodelist
         THEN SumSeq([ i \in 1..Len(SelectedItems(Dom, d)) |->
                         Len(SelectedItems(Dom, d)[i].valueMap) ])
         ELSE Cardinality(selected[d])

RefIncluded == SelectSeq(tableMetadata.id, LAMBDA d : d \in DOMAIN CurrentQuery)

RefTotals(included) ==
  [ selectedCells |->
      IF \E i \in 1..Len(included) :
           ~EffectiveEliminable(included[i]) /\ RefSelectedCount(included[i]) = 0
      THEN 0
      ELSE ProdSeq([ i \in 1..Len(included) |-> RefSelectedCount(included[i]) ]),
    maxCells |-> ProdSeq([ i \in 1..Len(included) |-> RefTrueMaxCount(included[i]) ]) ]

\* C10: the estimate of updateSelectionCellCount equals the reference rule in
\* every selection state: 0 selected cells if a non-eliminable included
\* dimension has selectedCount 0, otherwise the product of selectedCount, and
\* the product of trueMaxCount, over the included dimensions.
C10_EstimateEqualsReference ==
  CardsShown => updateSelectionCellCount(Dom) = RefTotals(RefIncluded)


\* C11: for a dimension in All mode getVariableSelection emits "*" when no
\* codelist is active for the dimension, and an explicit array holding exactly
\* the active codelist's originalCodes (never "*") when a codelist is active.
C11_StarEmitsStarOrOriginalCodes ==
  CardsShown =>
    \A d \in Cards(Dom) :
      mode[d] = "star" =>
        /\ d \in DOMAIN CurrentQuery
        /\ IF activeCodelists[d].codelistId = NoCodelist
           THEN CurrentQuery[d] = StarValue
           ELSE /\ CurrentQuery[d].kind = "codes"
                /\ CurrentQuery[d].codes = activeCodelists[d].originalCodes

\* a card in All mode under an aggregating codelist
C11_StarWithCodelistWitness ==
  /\ CardsShown
  /\ \E d \in Cards(Dom) :
       /\ mode[d] = "star"
       /\ activeCodelists[d].codelistId # NoCodelist
       /\ activeCodelists[d].isAggregated
       /\ Len(activeCodelists[d].originalCodes) >= 2
       /\ CurrentQuery[d].kind = "codes"

\* the codelist entries of d that are selected on the card
SelectedEntries(d) ==
  SelectSeq(activeCodelists[d].values, LAMBDA v : v.code \in selected[d])

\* the set union of the valueMaps of the entries
UnionOfValueMaps(entries) ==
  UNION { SeqToSet(entries[i].valueMap) : i \in 1..Len(entries) }

\* C12: for a dimension in Explicit mode with an active codelist the array
\* emitted by getVariableSelection is exactly the set union of the valueMaps
\* of the selected codelist entries, with no code repeated, also when the
\* valueMaps of different selected entries overlap.
C12_ExplicitIsUnionOfValueMaps ==
  CardsShown =>
    \A d \in Cards(Dom) :
      mode[d] = "specific" /\ activeCodelists[d].codelistId # NoCodelist =>
        IF d \in DOMAIN CurrentQuery
        THEN /\ CurrentQuery[d].kind = "codes"
             /\ NoDup(CurrentQuery[d].codes)
             /\ SeqToSet(CurrentQuery[d].codes) = UnionOfValueMaps(SelectedEntries(d))
        ELSE UnionOfValueMaps(SelectedEntries(d)) = {}

\* two selected entries whose valueMaps share a code
C12_OverlapWitness ==
  /\ CardsShown
  /\ \E d \in Cards(Dom) :
       /\ mode[d] = "specific" /\ activeCodelists[d].codelistId # NoCodelist
       /\ d \in DOMAIN CurrentQuery
       /\ \E i, j \in 1..Len(SelectedEntries(d)) :
            /\ i # j
            /\ SeqToSet(SelectedEntries(d)[i].valueMap)
                 \cap SeqToSet(SelectedEntries(d)[j].valueMap) # {}
       /\ Len(CurrentQuery[d].codes) = Cardinality(UnionOfValueMaps(SelectedEntries(d)))

\* a filter-type codelist: every entry maps to its own code only
FilterType(active) ==
  \A i \in 1..Len(active.values) :
    active.values[i].valueMap = << active.values[i].code >>

\* C13: filter-type codelist expansion is the identity: when every entry of
\* the active codelist has valueMap = [entry.code], the query emitted for
\* Explicit(codes) contains exactly the selected codes, the same set as for
\* the same codes without the codelist.
C13_FilterExpansionIsIdentity ==
  CardsShown =>
    \A d \in Cards(Dom) :
      /\ mode[d] = "specific"
      /\ activeCodelists[d].codelistId # NoCodelist
      /\ FilterType(activeCodelists[d])
      => IF d \in DOMAIN CurrentQuery
         THEN /\ CurrentQuery[d].kind = "codes"
              /\ SeqToSet(CurrentQuery[d].codes) = selected[d]
              /\ Len(CurrentQuery[d].codes) = Cardinality(selected[d])
         ELSE selected[d] = {}

\* entries of a filter-type codelist are selected and emitted
C13_FilterSelectedWitness ==
  /\ CardsShown
  /\ \E d \in Cards(Dom) :
       /\ mode[d] = "specific"
       /\ activeCodelists[d].codelistId # NoCodelist
       /\ activeCodelists[d].values # << >>
       /\ FilterType(activeCodelists[d])
       /\ Cardinality(selected[d]) = 2
       /\ d \in DOMAIN CurrentQuery

\* the position of a code in the category index of dimension d
IndexOfCode(d, c) == c - 1

\* ascending category-index order
Ascending(d, codes) ==
  \A i, j \in 1..Len(codes) : i < j => IndexOfCode(d, codes[i]) <= IndexOfCode(d, codes[j])

\* C14: for every time-like dimension any code array emitted in the query is
\* in ascending category-index order, whatever the display order or the click
\* order was, in Explicit mode and in All mode with an active codelist alike.
C14_TimeCodesAscending ==
  CardsShown =>
    \A d \in DOMAIN CurrentQuery :
      IsTimeDim(d) /\ CurrentQuery[d].kind = "codes" => Ascending(d, CurrentQuery[d].codes)

\* the eliminable flag of the dimension in the table metadata
BaseEliminable(d) == tableMetadata.dimension[d].elimination

FetchFailedOn(d) ==
  /\ CodelistArrives
  /\ Len(dropdown'[d].fetching) < Len(dropdown[d].fetching)
  /\ errorMsg' = "Kunne ikke laste kodeliste"

\* C16: when resolving a codelist for a dimension fails, the dimension ends up
\* with no active codelist, governed by its base category list and its
\* original eliminable flag, whatever codelist was active before the attempt,
\* and the failure is reported to the user once, without a retry.
C16_FailedFetchFallsBackToBase ==
  [][ \A d \in Dims(tableMetadata) :
        FetchFailedOn(d) =>
          /\ activeCodelists'[d] = NoActive
          /\ items'[d] = renderValueList(tableMetadata, d, d \in preloaded)
          /\ elimination'[d] = BaseEliminable(d)
          /\ \A e \in Dims(tableMetadata) : dropdown'[e] = dropdown[e] \/ e = d
    ]_vars

\* C17: if a codelist fetch for a dimension fails, the selection state that
\* existed when the fetch started (the dimension's mode, its selected codes,
\* its active codelist and its eliminable flag, and all other dimensions'
\* state) is unchanged afterwards; only the codelist control is enabled again.
C17_FailedFetchChangesNothing ==
  [][ \A d \in Dims(tableMetadata) :
        FetchFailedOn(d) =>
          UNCHANGED << mode, selected, topInput, items, activeCodelists,
                       activeCodelistIds, elimination >>
    ]_vars

\* the getCodeList calls for dimension d that are awaited: those of the
\* change handler of its dropdown and the one of restoreSelections
FetchesInFlight(d) ==
  Len(dropdown[d].fetching)
    + IF phase = "restoring" /\ restoreQueue # << >> /\ Head(restoreQueue) = d
      THEN 1 ELSE 0

\* C18: at most one codelist fetch is in flight per dimension at any time:
\* from the start of a codelist fetch for dimension d until its completion
\* d's codelist control is disabled, so no second fetch for d can be started,
\* whether the first fetch was started by the dropdown handler or by
\* restoreSelections while the event handlers are already attached.
C18_OneCodelistFetchPerDimension ==
  CardsShown =>
    \A d \in Cards(Dom) :
      /\ FetchesInFlight(d) <= 1
      /\ FetchesInFlight(d) = 1 => dropdown[d].disabled

Modes == { "specific", "star", "top" }

\* a step that completes a codelist switch on card d: "Velg fritt", or the
\* change handler resuming after its getCodeList
SwitchCompletesOn(d) == CardsShown /\ (ChooseFreelyOn(d) \/ ArrivesOn(d))

C19_OneMode == CardsShown => \A d \in Cards(Dom) : mode[d] \in Modes

C19_SwitchResets ==
  \A d \in Dims(tableMetadata) :
    SwitchCompletesOn(d) => mode'[d] = "specific" /\ selected'[d] = {}

ItemInteractionOn(d) == CardsShown /\ (ClickOn(d) \/ SelectAllOn(d) \/ SelectNoneOn(d))

\* (the mode after the step is looked at first: ItemInteractionOn(d) => ...)
C20_ItemInteractionLeavesSpecific ==
  \A d \in Dims(tableMetadata) :
    (d \in DOMAIN mode' /\ mode'[d] = "specific") \/ ~ItemInteractionOn(d)

\* a card present before and after the step enters star or top mode
EntersStarOrTop(d) ==
  /\ CardsShown /\ d \in DOMAIN mode /\ d \in DOMAIN mode'
  /\ mode'[d] \in { "star", "top" } /\ mode'[d] # mode[d]

\* among the handlers of the view (the restore pass of displayVariables puts
\* back the saved mode and is no handler)
C20_OnlyButtonsEnterStarOrTop ==
  \A d \in Dims(tableMetadata) :
    EntersStarOrTop(d) /\ ~RestoreCodelistDone => SelectStar \/ SelectTop \/ EditTopInput

InstalledOn(d) ==
  /\ view = "variables" /\ phase \in { "restoring", "ready" }
  /\ activeCodelists'[d].codelistId # NoCodelist
  /\ d \notin DOMAIN activeCodelists \/ activeCodelists'[d] # activeCodelists[d]

\* the step completes a codelist fetch of the card of d in the document: one
\* its change handler awaited, or the one restoreSelections awaited for it
SelectedOrRestoredOn(d) ==
  \/ /\ d \in DOMAIN dropdown /\ d \in DOMAIN dropdown'
     /\ Len(dropdown'[d].fetching) < Len(dropdown[d].fetching)
     /\ InSeq(activeCodelists'[d].codelistId, dropdown[d].fetching)
  \/ /\ restoreQueue # << >> /\ Head(restoreQueue) = d
     /\ Len(restoreQueue') < Len(restoreQueue)
     /\ activeCodelists'[d].codelistId = activeCodelistIds[d]

\* the step loads the metadata of a table
MetadataLoaded ==
  view # "variables" /\ view' = "variables" /\ phase' # "failed"

\* C21: loading the metadata of a table leaves no dimension with an active
\* codelist and no preloaded ordering of an earlier table, and afterwards a
\* codelist is installed on a dimension only by the completion of a fetch that
\* a card of the table in the document started (selection) or that
\* restoreSelections started for it (restore)
C21_CodelistsBelongToLoadedTable ==
  [][ /\ MetadataLoaded =>
           /\ \A d \in DOMAIN activeCodelists' :
                activeCodelists'[d].codelistId = NoCodelist
           /\ preloaded' \subseteq PreloadableDims(Meta(table'))
      /\ \A d \in DOMAIN activeCodelists' :
           InstalledOn(d) => SelectedOrRestoredOn(d) ]_vars

\* the same without the handlers of detached cards
C21_HoldsForCardsInDocument ==
  [][ DetachedArrives \/
      \A d \in DOMAIN activeCodelists' :
         InstalledOn(d) => SelectedOrRestoredOn(d) ]_vars

\* a codelist that the table in the document does not offer is active on one
\* of its dimensions
C21_ForeignCodelistActive ==
  /\ view = "variables" /\ phase = "ready"
  /\ \E d \in Dims(tableMetadata) :
       /\ activeCodelists[d].codelistId # NoCodelist
       /\ ~InSeq(activeCodelists[d].codelistId, tableMetadata.dimension[d].codelists)

\* the entries of the response that have a code, in the order of the response
EntriesWithCode(codelistData) ==
  SelectSeq(codelistData.values, LAMBDA item : item.code # 0)

\* C25: extractCodelistCodes returns for every response.  A response without
\* a values array yields the empty codelist.  Otherwise the returned entries
\* are the entries that have a code, in the order of the response (an entry
\* without a code is skipped, the entries after it are still processed); an
\* entry whose valueMap is absent, not an array or empty is returned with the
\* valueMap [code], any other entry with its own valueMap; every returned
\* entry has a non-empty valueMap.
C25_MalformedEntriesAreSkippedOrSelfMapped ==
  LET codelistData == extraction.codelistData
      values == extraction.result.values
      withCode == EntriesWithCode(extraction.codelistData)
  IN  /\ (extraction.called /\ ~extraction.returned) =>
           Len(extractCodelistCodes(codelistData).values) <= Len(codelistData.values)
      /\ extraction.returned =>
           /\ ~codelistData.hasValues =>
                /\ values = << >>
                /\ extraction.result.originalCodes = << >>
                /\ ~extraction.result.isAggregated
           /\ Len(values) = Len(withCode)
           /\ \A i \in 1..Len(values) :
                /\ values[i].code = withCode[i].code
                /\ values[i].valueMap =
                     IF withCode[i].valueMap = << >> THEN << withCode[i].code >>
                     ELSE withCode[i].valueMap
                /\ values[i].valueMap # << >>

\* the response [entry without code; code 101 without valueMap]: the first
\* entry is skipped, the second is still processed and self-mapped
C25_SkippedAndSelfMappedWitness ==
  /\ extraction.returned
  /\ extraction.codelistData.values
       = << [ code |-> 0, valueMap |-> << 1 >> ], [ code |-> 101, valueMap |-> << >> ] >>
  /\ extraction.result.values = << [ code |-> 101, valueMap |-> << 101 >> ] >>

RestoreCompletes ==
  request.sent /\ view' = "variables" /\ phase # "ready" /\ phase' = "ready"

\* the cards when restoreSelections has returned: the items, eliminations and
\* codelists of its first pass, and the modes, selections and top-n inputs of
\* its second pass on the freshly rendered cards
RestoredCards ==
  SecondPass([ tableMetadata |-> tableMetadata',
               items |-> items',
               mode |-> [ d \in DOMAIN mode' |-> "specific" ],
               selected |-> [ d \in DOMAIN mode' |-> {} ],
               topInput |-> [ d \in DOMAIN mode' |->
                                IF HasTopInput(d) THEN << DefaultTopCount >> ELSE << >> ],
               elimination |-> elimination',
               activeCodelists |-> activeCodelists' ],
             variableSelection')

\* the saved codelist of d, if any, is active again
CodelistRestoredOn(d) == activeCodelists'[d].codelistId = activeCodelistIds'[d]

\* the same query value for d, the order of the codes of an array left aside
SameEntryUpToOrder(q1, q2, d) ==
  /\ d \in DOMAIN q1 <=> d \in DOMAIN q2
  /\ d \in DOMAIN q1 =>
       /\ q1[d].kind = q2[d].kind /\ q1[d].n = q2[d].n
       /\ SeqToSet(q1[d].codes) = SeqToSet(q2[d].codes)

\* C27: when restoreSelections has returned on the way back from the table
\* view, the query built by getVariableSelection has, for every dimension whose
\* saved codelist (if any) is active again, the value of the query stored when
\* the data was fetched: the codes of an array, "*" or "top(N)".
C27_RoundTripRestoresQuery ==
  [][ RestoreCompletes =>
        \A d \in Dims(tableMetadata') :
           CodelistRestoredOn(d) =>
             SameEntryUpToOrder(getVariableSelection(RestoredCards),
                                variableSelection', d) ]_vars

\* the same for the dimensions without a saved codelist
C27_HoldsWithoutCodelist ==
  [][ RestoreCompletes =>
        \A d \in Dims(tableMetadata') :
           (activeCodelistIds'[d] = NoCodelist) =>
             SameEntryUpToOrder(getVariableSelection(RestoredCards),
                                variableSelection', d) ]_vars

\* C28: on every card in top mode the n of the query value "top(n)" is the n
\* that the estimate takes in min(n, trueMaxCount), whether the input holds a
\* number, is empty or is absent from the card.
C28_TopQueryUsesEstimatorN ==
  CardsShown =>
    \A d \in Cards(Dom) :
       (mode[d] = "top") =>
          /\ getVariableSelection(Dom)[d] = TopValue(TopCountN(Dom, d))
          /\ dimSelectedCount(Dom, d)
               = Min(TopQueryN(Dom, d), getTrueDimensionValueCount(Dom, d))

\* the same for the cards whose input holds a number
C28_HoldsWithFilledInput ==
  CardsShown =>
    \A d \in Cards(Dom) :
       (mode[d] = "top" /\ HasTopInput(d) /\ topInput[d] # << >>) =>
          /\ getVariableSelection(Dom)[d] = TopValue(topInput[d][1])
          /\ dimSelectedCount(Dom, d)
               = Min(topInput[d][1], getTrueDimensionValueCount(Dom, d))

\* a card in top mode whose input was emptied
C28_EmptiedInputInTopMode ==
  /\ CardsShown
  /\ \E d \in Cards(Dom) : mode[d] = "top" /\ HasTopInput(d) /\ topInput[d] = << >>

\* a card in top mode that has no input
C28_AbsentInputInTopMode ==
  /\ CardsShown
  /\ \E d \in Cards(Dom) : mode[d] = "top" /\ ~HasTopInput(d)

\* two selected entries of the active codelist of d share an original code
OverlappingSelection(d) ==
  /\ activeCodelists[d].codelistId # NoCodelist
  /\ mode[d] = "specific"
  /\ \E i, j \in 1..Len(SelectedItems(Dom, d)) :
        /\ i # j
        /\ SeqToSet(SelectedItems(Dom, d)[i].valueMap)
              \cap SeqToSet(SelectedItems(Dom, d)[j].valueMap) # {}

\* the active codelist of d covers no original code
CoversNoCode(d) ==
  /\ activeCodelists[d].codelistId # NoCodelist
  /\ activeCodelists[d].originalCodes = << >>

\* C29: the estimate never exceeds the maximum: selectedCells <= maxCells,
\* and dimSelectedCount <= trueCount on every card the loop includes, also
\* under an aggregation codelist whose valueMaps overlap.
C29_EstimateWithinMaximum ==
  CardsShown =>
    /\ updateSelectionCellCount(Dom).selectedCells <= updateSelectionCellCount(Dom).maxCells
    /\ \A d \in Cards(Dom) :
          ~SkippedCard(Dom, d) =>
             dimSelectedCount(Dom, d) <= getTrueDimensionValueCount(Dom, d)

\* the same while no two selected entries overlap and every active codelist
\* covers a code
C29_HoldsWithoutOverlap ==
  (CardsShown /\ \A d \in Cards(Dom) : ~OverlappingSelection(d) /\ ~CoversNoCode(d)) =>
    /\ updateSelectionCellCount(Dom).selectedCells <= updateSelectionCellCount(Dom).maxCells
    /\ \A d \in Cards(Dom) :
          ~SkippedCard(Dom, d) =>
             dimSelectedCount(Dom, d) <= getTrueDimensionValueCount(Dom, d)

\* two overlapping entries are selected and counted beyond the codes covered
C29_OverlapCountedTwice ==
  /\ CardsShown
  /\ \E d \in Cards(Dom) :
       /\ OverlappingSelection(d)
       /\ dimSelectedCount(Dom, d) > getTrueDimensionValueCount(Dom, d)
       /\ cellDisplay.selectedCells > cellDisplay.maxCells

\* an entry of an aggregation codelist is selected alone
C29_AggregatedEntrySelected ==
  /\ CardsShown
  /\ \E d \in Cards(Dom) :
       /\ activeCodelists[d].codelistId # NoCodelist
       /\ activeCodelists[d].isAggregated
       /\ mode[d] = "specific" /\ selected[d] # {}
       /\ ~OverlappingSelection(d)

\* no getCodeList call is awaited: restoreSelections has returned, and no
\* change handler is between its request and its response
NoCodelistFetchInFlight ==
  /\ phase = "ready"
  /\ \A d \in DOMAIN dropdown : dropdown[d].fetching = << >>
  /\ detached = << >>

\* C30: while no codelist fetch is in flight, the id that AppState holds for
\* a dimension (sent as codelistIds with the data request) is the id of the
\* codelist active on its card (used to build the query), and there is none
\* of the one exactly when there is none of the other.
C30_SentIdsAgreeWithActiveCodelists ==
  (CardsShown /\ NoCodelistFetchInFlight) =>
    \A d \in Cards(Dom) : activeCodelistIds[d] = activeCodelists[d].codelistId

\* every step in the view that changes the id or the codelist of a card
\* leaves the two agreeing
C30_ChangesAgree ==
  [][ (CardsShown /\ view' = "variables" /\ phase' \in { "restoring", "ready" }) =>
        \A d \in Cards(Dom) :
           (\/ activeCodelistIds'[d] # activeCodelistIds[d]
            \/ activeCodelists'[d] # activeCodelists[d]) =>
              activeCodelistIds'[d] = activeCodelists'[d].codelistId ]_vars

\* a data request is sent with a codelist id while the query was built
\* without the codelist
C30_RequestWithForeignId ==
  /\ request.sent
  /\ view = "table"
  /\ \E d \in DOMAIN request.selection :
       /\ activeCodelistIds[d] # NoCodelist
       /\ request.selection[d] = StarValue

\* the set with code c toggled
Toggled(sel, c) == IF c \in sel THEN sel \ { c } ELSE sel \cup { c }

\* a step of the "Alle (*)" button, the "Siste" button or the N input changes
\* the mode of one card and nothing else of the selection
C31_ModeSwitchKeepsSelection ==
  (SelectStar \/ SelectTop \/ EditTopInput) =>
     /\ UNCHANGED << selected, items, activeCodelists, elimination >>
     /\ \A d, e \in Cards(Dom) : (mode'[d] # mode[d] /\ mode'[e] # mode[e]) => d = e
     /\ \A d \in Cards(Dom) : mode'[d] # mode[d] => mode'[d] \in { "star", "top" }

\* a Ctrl-click or a plain click on the item at position k of a card that is
\* in star or top mode
C31_ClickLeavesMode ==
  \A d \in Dims(tableMetadata) :
    (CardsShown /\ mode[d] \in { "star", "top" }) =>
      \A k \in ClickTargets(d) :
        /\ ClickWith(d, k, TRUE, FALSE) =>
             /\ mode'[d] = "specific"
             /\ selected'[d] = Toggled(selected[d], items[d][k].code)
        /\ ClickWith(d, k, FALSE, FALSE) =>
             /\ mode'[d] = "specific"
             /\ selected'[d] = { items[d][k].code }

\* C31: switching a dimension to star or top mode changes only its mode and
\* keeps its selected items; leaving the mode by a Ctrl-click on an item gives
\* the kept set with that item toggled, leaving it by a plain click gives the
\* clicked item alone.
C31_ModeSwitchKeepsSelectionUntilClick ==
  [][C31_ModeSwitchKeepsSelection /\ C31_ClickLeavesMode]_vars

\* the Tid card in top mode with the selection left by a Ctrl-click that took
\* the first item out of the selected ones
C31_KeptSelectionWitness ==
  /\ table = "t_tid" /\ CardsShown
  /\ mode["Tid"] = "top"
  /\ lastClickedIndex["Tid"] = 1
  /\ selected["Tid"] # {}
  /\ items["Tid"][1].code \notin selected["Tid"]

(***************************************************************************)
(* Properties of the table view                                            *)
(***************************************************************************)
\* mandatory-dimension validation of a query against the table's metadata
PassesValidation(q) ==
  \A d \in Dims(Meta(table)) :
     Meta(table).dimension[d].elimination \/ ~EmptyDimSelection(q, d)

\* the number of cells the query asks for
CellsOf(q) == ProdSeq(CubeOf(Meta(table), q).size)

\* C4: every request handed to api.getTableData by loadTableData, from the
\* fetch button and from a table/<tableId> URL alike, carries a query that
\* passes the mandatory-dimension validation and asks for at most maxCells
\* cells.
C4_FetchOnlyValidWithinLimit ==
  request.sent =>
    /\ PassesValidation(request.selection)
    /\ CellsOf(request.selection) <= maxCells

\* rows and columns together hold every dimension of D exactly once
IsPartition(rows, columns, D) ==
  /\ NoDup(rows \o columns)
  /\ SeqToSet(rows \o columns) = SeqToSet(D)

\* C5: whenever displayData builds the table from the fetched cube,
\* AppState.tableLayout is a partition of the cube's dimension list, so no
\* absent dimension is addressed and no cube dimension is left out (and
\* read at index 0).
C5_RenderedLayoutIsPartition ==
  rendered \in { "table", "crashed" } =>
    IsPartition(tableLayout.rows, tableLayout.columns, currentData.id)

\* C6: a click on "Bruk layout" installs the chips as the new layout only
\* if they are exactly the cube's dimensions, each once; otherwise it shows
\* an error and leaves the layout, the cube and the displayed table as they
\* were.
C6_ApplyRotationExactOrRejected ==
  [][ ApplyRotation =>
        IF IsPartition(dialog.rows, dialog.columns, currentData.id)
        THEN tableLayout' = [ rows |-> dialog.rows, columns |-> dialog.columns ]
        ELSE /\ errorMsg' # ""
             /\ UNCHANGED << tableLayout, currentData, rendered >> ]_vars

\* a click on "Bruk layout" was rejected: the chips miss a cube dimension
C6_RejectedWitness ==
  /\ dialog.open
  /\ rendered = "table"
  /\ errorMsg = "Alle dimensjoner må være enten i rader eller kolonner"
  /\ ~IsPartition(dialog.rows, dialog.columns, currentData.id)

\* rows and columns together hold every dimension of D once
PartitionOf(rows, columns, D) ==
  /\ SeqToSet(rows) \cap SeqToSet(columns) = {}
  /\ NoDup(rows) /\ NoDup(columns)
  /\ SeqToSet(rows) \cup SeqToSet(columns) = SeqToSet(D)

\* the layout the claim describes for the dimension list D
DescribedDefault(D, rows, columns) ==
  IF \E i \in 1..Len(D) : IsTimeDim(D[i])
  THEN /\ Len(rows) = 1 /\ IsTimeDim(rows[1])
       /\ columns = SelectSeq(D, LAMBDA d : d # rows[1])
  ELSE IF Len(D) > 1
       THEN columns = << D[Len(D)] >> /\ rows = SubSeq(D, 1, Len(D) - 1)
       ELSE rows = << >> /\ columns = D

Transposed(dlg) == applyPreset("transpose", currentData.id, dlg)

\* C23: with the dialog open on a partition of the dimensions, one click on
\* "transpose" shows the former columns as rows and the former rows as
\* columns, again a partition, and a second click shows the starting layout.
C23_TransposeIsInvolution ==
  (dialog.open /\ PartitionOf(dialog.rows, dialog.columns, currentData.id)) =>
    /\ Transposed(dialog).rows = dialog.columns
    /\ Transposed(dialog).columns = dialog.rows
    /\ PartitionOf(Transposed(dialog).rows, Transposed(dialog).columns, currentData.id)
    /\ Transposed(Transposed(dialog)) = dialog

\* the dialog was opened on the default layout of D = [Kjonn, Tid, Alder] and
\* shows its transpose
C23_TransposedWitness ==
  /\ currentData.id = << "Kjonn", "Tid", "Alder" >>
  /\ dialog.open
  /\ tableLayout = determineDefaultLayout(currentData.id)
  /\ dialog.rows = tableLayout.columns /\ dialog.columns = tableLayout.rows
  /\ PartitionOf(dialog.rows, dialog.columns, currentData.id)

(***************************************************************************)
(* Properties of the cube addressing                                       *)
(***************************************************************************)
\* stride of the last dimension 1, stride(i) = stride(i+1) * size(i+1)
RECURSIVE Stride(_, _)
Stride(sizes, i) == IF i >= Len(sizes) THEN 1 ELSE Stride(sizes, i + 1) * sizes[i + 1]

StrideSum(idx, sizes) == SumSeq([ i \in 1..Len(sizes) |-> idx[i] * Stride(sizes, i) ])

\* the in-range index vectors: 0 <= idx[i] < sizes[i]
InRange(sizes) ==
  { idx \in [ 1..Len(sizes) -> 0..(MaxSize - 1) ] :
      \A i \in 1..Len(sizes) : idx[i] < sizes[i] }

Offsets(sizes) == 0..(ProdSeq(sizes) - 1)

RowCombos == buildDimensionCombinations(tableLayout.rows, currentData)

ColCombos == buildDimensionCombinations(tableLayout.columns, currentData)

\* the offset getDataValue reads for a row and a column combination
OffsetOf(rowHeader, colHeader) ==
  calculateFlatIndex(FullIndices(tableLayout, currentData, rowHeader, colHeader),
                     currentData.size)

\* the combinations of dimCodes are the Cartesian product of their category
\* indices, each once
IsProduct(combos, dimCodes) ==
  /\ Cardinality(SeqToSet(combos)) = Len(combos)
  /\ SeqToSet(combos) =
       { idx \in [ 1..Len(dimCodes) -> 0..(MaxSize - 1) ] :
           \A i \in 1..Len(dimCodes) : idx[i] < CategoryCount(currentData, dimCodes[i]) }

\* the tuple at position k (from 0) of the Cartesian product of the categories
\* of dims, ordered lexicographically by ascending category index with the
\* last listed dimension varying fastest
LexTuple(dims, data, k) ==
  [ j \in 1..Len(dims) |->
      (k \div ProdSeq([ m \in 1..(Len(dims) - j) |-> CategoryCount(data, dims[j + m]) ]))
        % CategoryCount(data, dims[j]) ]

LexTuples(dims, data) ==
  [ k \in 1..ProdSeq([ j \in 1..Len(dims) |-> CategoryCount(data, dims[j]) ]) |->
      LexTuple(dims, data, k - 1) ]

\* the dimension lists buildHtmlTable hands to buildDimensionCombinations
HeaderAxes == { tableLayout.rows, tableLayout.columns }

\* C24: buildDimensionCombinations(dims, data) returns one tuple per element
\* of the Cartesian product of the categories of dims, ordered
\* lexicographically with the last listed dimension varying fastest and the
\* categories of every dimension by ascending category index; for an empty
\* list it returns the single empty tuple.
C24_CombinationsInIndexOrder ==
  currentData.loaded =>
    \A dims \in HeaderAxes :
      buildDimensionCombinations(dims, currentData) = LexTuples(dims, currentData)

\* the number of tuples and the tuples as a set, whatever their order
C24_CombinationsAreTheProduct ==
  currentData.loaded =>
    \A dims \in HeaderAxes :
      /\ Len(buildDimensionCombinations(dims, currentData))
           = ProdSeq([ j \in 1..Len(dims) |-> CategoryCount(currentData, dims[j]) ])
      /\ SeqToSet(buildDimensionCombinations(dims, currentData))
           = SeqToSet(LexTuples(dims, currentData))
      /\ NoDup(buildDimensionCombinations(dims, currentData))
      /\ dims = << >> => buildDimensionCombinations(dims, currentData) = << << >> >>

\* the claim on the cubes whose categories Object.keys enumerates by index
C24_InIndexOrderWhenKeysAre ==
  (currentData.loaded
     /\ \A i \in 1..Len(currentData.id) :
          currentData.keys[i] = IndexOrder(currentData.size[i])) =>
    \A dims \in HeaderAxes :
      buildDimensionCombinations(dims, currentData) = LexTuples(dims, currentData)

C7_Bijection ==
  IsPartition(tableLayout.rows, tableLayout.columns, currentData.id) =>
    /\ IsProduct(RowCombos, tableLayout.rows)
    /\ IsProduct(ColCombos, tableLayout.columns)
    /\ { OffsetOf(RowCombos[r], ColCombos[c]) :
           r \in 1..Len(RowCombos), c \in 1..Len(ColCombos) } = Offsets(currentData.size)
    /\ Len(RowCombos) * Len(ColCombos) = ProdSeq(currentData.size)

C7_LayoutChangeKeepsCube == tableLayout' # tableLayout => currentData' = currentData

\* C7: under every layout that is a partition of D, (rowCombo, colCombo) ->
\* offset maps the product of the row and the column combinations one-to-one
\* onto 0..|V|-1, and a change of the layout leaves D, the sizes and V as
\* they were.
C7_CellsAreABijection == [] C7_Bijection /\ [][C7_LayoutChangeKeepsCube]_vars

\* a three-dimensional cube under a rotated layout, its last value looked up
C7_RotatedWitness ==
  /\ currentData.id = << "Kjonn", "Alder", "Tid" >>
  /\ currentData.size = << 2, 3, 2 >>
  /\ tableLayout = [ rows |-> << "Tid", "Kjonn" >>, columns |-> << "Alder" >> ]
  /\ probe.asked
  /\ probe.flat = 11

\* C8: calculateFlatIndex(idx, sizes) is the sum of idx[i] * stride(i); on
\* the in-range index vectors it is one-to-one and its image is
\* 0..(product of sizes)-1.
C8_FlatIndexIsStrideSum ==
  currentData.loaded =>
    /\ \A idx \in InRange(currentData.size) :
          calculateFlatIndex(idx, currentData.size) = StrideSum(idx, currentData.size)
    /\ { calculateFlatIndex(idx, currentData.size) : idx \in InRange(currentData.size) }
         = Offsets(currentData.size)
    /\ Cardinality(InRange(currentData.size)) = ProdSeq(currentData.size)

\* sizes [2,3]: the vector (1,2) was looked up at offset 5
C8_TwoByThreeWitness ==
  /\ currentData.size = << 2, 3 >>
  /\ probe.asked
  /\ probe.row \o probe.col \in { << 1, 2 >>, << 2, 1 >> }
  /\ probe.flat = 5

\* the index of dimension i of D in the cell looked up last
ProbedIndex(i) ==
  IF InSeq(currentData.id[i], tableLayout.rows)
  THEN probe.row[IndexOf(currentData.id[i], tableLayout.rows)]
  ELSE probe.col[IndexOf(currentData.id[i], tableLayout.columns)]

\* C9: the value getDataValue returns for a cell is V[offset], the offset of
\* the index vector taken in the order of D, each index from the combination
\* that holds the dimension.
C9_ValueAtOffsetInCubeOrder ==
  probe.asked =>
    probe.value =
      ValueAt(currentData,
              SumSeq([ i \in 1..Len(currentData.id) |->
                         ProbedIndex(i) * Stride(currentData.size, i) ]))

\* D = [Sex, Year], sizes [2,2], rows [Sex], columns [Year]: the cell
\* Sex=1, Year=1 is V[3] = 40
C9_ExampleWitness ==
  /\ currentData.id = << "Sex", "Year" >>
  /\ currentData.size = << 2, 2 >>
  /\ tableLayout = [ rows |-> << "Sex" >>, columns |-> << "Year" >> ]
  /\ probe.asked
  /\ probe.row = << 1 >> /\ probe.col = << 1 >>
  /\ probe.flat = 3 /\ probe.value = 40

(***************************************************************************)
(* Properties of the URL                                                   *)
(***************************************************************************)
\* a handler of the variables view has changed the selection of a card
SelectionMutation ==
  /\ view = "variables" /\ view' = "variables"
  /\ restoreQueue' = restoreQueue
  /\ mode' # mode \/ selected' # selected \/ topInput' # topInput

\* the callback of the timeout runs
TimerCallback == urlUpdateTimer = << DebounceMs >> /\ urlUpdateTimer' = << >>

\* a selection mutation leaves the URL alone and restarts the delay of the
\* pending update
MutationRestartsDelay ==
  SelectionMutation => urlUpdateTimer' = << 0 >> /\ location' = location

\* the URL is replaced by the callback of the timeout only
ReplacedOnlyAfterDelay ==
  (location' # location /\ location'.how = "replace") => TimerCallback

\* with the variables view current, the callback leaves the route
\* variables/<tableId> with the selection and the codelist ids of that time
CallbackWritesCurrentSelection ==
  (TimerCallback /\ view = "variables") =>
    /\ location'.hash = TimerHash
    /\ location' = location \/ location'.how = "replace"

\* C32: a selection mutation leaves the URL alone and restarts the 500 ms of
\* the pending update, so the earlier pending update is cancelled; the URL is
\* replaced only by the callback of the timeout, 500 ms after the last
\* mutation; with the variables view current the callback leaves the route
\* variables/<tableId> with the selection and the codelist ids of that time,
\* written by replaceState, and no update pending.
C32_UrlUpdatedOnceAfterBurst ==
  [][ /\ MutationRestartsDelay
      /\ ReplacedOnlyAfterDelay
      /\ CallbackWritesCurrentSelection ]_vars

\* the callback has replaced the URL of the variables view by one with the
\* selection of the cards, and no update is pending
C32_ReplacedByCallbackWitness ==
  /\ view = "variables" /\ phase = "ready"
  /\ urlUpdateTimer = << >>
  /\ location.how = "replace"
  /\ location.hash = TimerHash
  /\ DOMAIN location.hash.v # {}

\* the URL is the one of the table view of the table, with the selection
\* the data were fetched for
TableUrl ==
  /\ location.hash.route = "table"
  /\ location.hash.table = table
  /\ location.hash.v = variableSelection

\* C33: whenever the table view is the current view, the URL hash route is
\* table/<tableId> and carries the fetched selection; a pending debounced
\* update never overwrites it.
C33_TableViewKeepsTableUrl == view = "table" => TableUrl

\* the URL of the table view is the table URL until the callback of a
\* timeout set in the variables view replaces it
C33_TableUrlUntilReplaced ==
  (view = "table" /\ location.how # "replace") => TableUrl

\* the table view is current and shows the data, and the callback has put
\* the URL of the variables view, without selection, in its place
C33_TableViewWithVariablesUrl ==
  /\ view = "table" /\ phase = "shown" /\ rendered = "table"
  /\ location.how = "replace"
  /\ location.hash.route = "variables"
  /\ DOMAIN location.hash.v = {}
  /\ urlUpdateTimer = << >>

\* the step completes displayVariables
DisplayCompletes == view' = "variables" /\ phase # "ready" /\ phase' = "ready"

\* the cards the step leaves
CardsAfter ==
  [ tableMetadata |-> tableMetadata', items |-> items', mode |-> mode',
    selected |-> selected', topInput |-> topInput', elimination |-> elimination',
    activeCodelists |-> activeCodelists' ]

\* the codes the step can have found selected or saved for card d: those
\* selected before it, and those of the saved selection
SelectedOrSaved(d) ==
  (IF d \in DOMAIN selected THEN selected[d] ELSE {})
    \cup (IF d \in DOMAIN variableSelection' THEN SeqToSet(variableSelection'[d].codes)
          ELSE {})

\* the mandatory cards the step leaves all have a single item
AllMandatorySingle ==
  \A d \in DOMAIN mode' : elimination'[d] \/ Len(items'[d]) = 1

\* C34: when displayVariables has completed, every card that is not
\* eliminable and has exactly one item is in specific mode with that item
\* selected; if every card that is not eliminable has one item, the selection
\* is valid; on an eliminable card no item is selected that was neither
\* selected before nor saved.
C34_SingleMandatoryAutoSelected ==
  [][ DisplayCompletes =>
        /\ \A d \in DOMAIN mode' :
             (~elimination'[d] /\ Len(items'[d]) = 1) =>
               (mode'[d] = "specific" /\ selected'[d] = { items'[d][1].code })
        /\ AllMandatorySingle =>
             validateSelection(CardsAfter, getVariableSelection(CardsAfter))
        /\ \A d \in DOMAIN mode' :
             elimination'[d] => selected'[d] \subseteq SelectedOrSaved(d) ]_vars

\* the view of t_alder as displayVariables leaves it without a saved
\* selection: the single ContentsCode selected, Alder untouched, fetch enabled
C34_AutoSelectedWitness ==
  /\ table = "t_alder" /\ view = "variables" /\ phase = "ready"
  /\ variableSelection = EmptyQuery
  /\ Len(items["ContentsCode"]) = 1 /\ ~elimination["ContentsCode"]
  /\ mode["ContentsCode"] = "specific"
  /\ selected["ContentsCode"] = { items["ContentsCode"][1].code }
  /\ elimination["Alder"] /\ selected["Alder"] = {}
  /\ ~fetchDisabled

(***************************************************************************)
(* Properties of the services                                              *)
(***************************************************************************)
\* no _doInit is in flight
NoInitInFlight == \A p \in 1..Len(promises) : promises[p] # "pending"

\* the step is a call of init() by c that comes to await a promise
AwaitsAfterCall(c) == callers[c].pc = "idle" /\ callers'[c].pc = "awaiting"

\* the step is the resumption of c after its await
Resumes(c) == callers[c].pc = "awaiting" /\ callers'[c].pc # "awaiting"

\* C35: a call of init() fetches the table list only if the list is not
\* loaded and no fetch is in flight, and then it does, so overlapping calls
\* share one fetch and one promise; once isLoaded is true it stays true and
\* nothing is fetched any more; a failed fetch leaves isLoaded false and
\* _initPromise null, and every caller that awaited it resumes with the
\* failure, as every caller that awaited a successful one resumes normally.
C35_InitIsSingleFlight ==
  [][ /\ fetches' # fetches =>
           /\ fetches' = fetches + 1
           /\ ~isLoaded /\ NoInitInFlight
      /\ \A c \in Callers :
           AwaitsAfterCall(c) =>
             /\ ~isLoaded
             /\ promises'[callers'[c].p] = "pending"
             /\ initPromise' = callers'[c].p
             /\ NoInitInFlight <=> fetches' = fetches + 1
      /\ isLoaded => (isLoaded' /\ fetches' = fetches)
      /\ \A p \in 1..Len(promises) :
           /\ (promises[p] = "pending" /\ promises'[p] = "rejected") =>
                (~isLoaded' /\ initPromise' = 0)
           /\ (promises[p] = "pending" /\ promises'[p] = "fulfilled") => isLoaded'
      /\ \A c \in Callers :
           Resumes(c) =>
             callers'[c].pc = (IF promises[callers[c].p] = "rejected" THEN "threw"
                               ELSE "returned") ]_vars

\* two overlapping callers have seen the failure of the one fetch they shared,
\* and the next call has started the second fetch
C35_SharedFailureThenNewFetch ==
  /\ fetches = 2 /\ ~isLoaded
  /\ promises = << "rejected", "pending" >>
  /\ \E c1, c2, c3 \in Callers :
       /\ c1 # c2
       /\ callers[c1] = [ pc |-> "threw", p |-> 1 ]
       /\ callers[c2] = [ pc |-> "threw", p |-> 1 ]
       /\ callers[c3] = [ pc |-> "awaiting", p |-> 2 ]

\* the content area shows server results rendered by call n
ShowsServerResultsOf(n) == searchResults.kind = "combined" /\ searchResults.call = n

\* C36: once a newer _searchPerformSearch has begun, whatever its query and
\* whether or not enhanced mode is on, the server results of an older
\* search are never rendered: the content area shows server results of the
\* newest call only.
C36_StaleServerResultsNeverRendered ==
  \A n \in 1..Len(searchCalls) : ShowsServerResultsOf(n) => n = Len(searchCalls)

\* the server results of an older search are not rendered once a newer
\* search has taken the enhanced branch
C36_CancelledByEnhancedSearch ==
  \A n \in 1..Len(searchCalls) :
    ShowsServerResultsOf(n) =>
      \A m \in (n + 1)..Len(searchCalls) : ~IsEnhanced(searchCalls[m])

\* an enhanced search for "bnp", then a search with enhanced mode off: the
\* server results of the first are rendered over the results of the second
C36_StaleResultsOverPlainSearch ==
  /\ Len(searchCalls) = 2
  /\ searchCalls[1] = [ query |-> "bnp", enhanced |-> TRUE ]
  /\ searchCalls[2] = [ query |-> "lonn", enhanced |-> FALSE ]
  /\ ShowsServerResultsOf(1)
  /\ serverCalls = {}

\* the distance of two times
Apart(a, b) == IF a <= b THEN b - a ELSE a - b

\* C37: any two requests sent through _throttledFetch are sent at least
\* 100 ms apart, also when the calls were started concurrently.
C37_RequestsSpacedByThrottle ==
  \A i, j \in DOMAIN sentAt :
    i # j => Apart(sentAt[i].at, sentAt[j].at) >= ThrottleMs

\* a request that is sent without waiting is at least 100 ms later than
\* every request sent before it
C37_UnwaitedRequestIsSpaced ==
  \A i, j \in DOMAIN sentAt :
    (i < j /\ ~sentAt[j].waited) => sentAt[j].at - sentAt[i].at >= ThrottleMs

\* three calls started together: the first is sent at once, the two others
\* wait for the same moment and are sent together
C37_TwoWaitersSentTogether ==
  /\ Len(sentAt) = 3
  /\ sentAt[1] = [ at |-> ThrottleMs, waited |-> FALSE ]
  /\ sentAt[2].waited /\ sentAt[3].waited
  /\ sentAt[2].at = sentAt[3].at
  /\ sentAt[2].at - sentAt[1].at >= ThrottleMs

\* C38: after set(key, v, ttl) has completed without a storage failure,
\* get(key) returns v as long as the entry has not expired or become stale,
\* whatever was stored under the key before and whichever storage the
\* earlier and the later value were routed to.
C38_GetReturnsLastWrite ==
  (lastGet.done /\ written # NoValue) => lastGet.value = written

\* get(key) returns the value of the last set when that value is large, or
\* when no reference to IndexedDB is left under the key
C38_HoldsWithoutOlderReference ==
  [][ (lastGet'.done /\ written # NoValue /\ (IsLarge(written) \/ ~lsRef))
        => lastGet'.value = written ]_vars

\* a large value and then a small one were set under the key: get returns
\* the large one, which is still in IndexedDB behind its reference
C38_OlderLargeValueRead ==
  /\ lastGet.done
  /\ written # NoValue /\ ~IsLarge(written)
  /\ lsItem = Stored(written)
  /\ lsRef /\ idbItem.fresh
  /\ lastGet.value = idbItem.value /\ IsLarge(lastGet.value)

\* the step belongs to a codelist switch on card d: the change handler up to
\* its awaited getCodeList, the handler after it, or the change to "Velg
\* fritt"
CodelistSwitchOn(d) ==
  /\ CardsShown
  /\ \/ CodelistChange /\ dropdown'[d] # dropdown[d]
     \/ ArrivesOn(d)
     \/ ChooseFreelyOn(d)

\* mode, selected codes, active codelist and eliminable flag of every card
\* but d are left as they were
OtherCardsKept(d) ==
  \A e \in DOMAIN mode \ { d } :
    /\ mode'[e] = mode[e]
    /\ selected'[e] = selected[e]
    /\ activeCodelists'[e] = activeCodelists[e]
    /\ activeCodelistIds'[e] = activeCodelistIds[e]
    /\ elimination'[e] = elimination[e]
    /\ tableMetadata'.dimension[e].elimination = tableMetadata.dimension[e].elimination

\* C39: a codelist switch on dimension d, successful, failed or back to
\* "Velg fritt", leaves the mode, the selected codes, the active codelist and
\* the effective eliminable flag of every other dimension unchanged.
C39_SwitchLeavesOtherDimensions ==
  [][ \A d \in DOMAIN mode : CodelistSwitchOn(d) => OtherCardsKept(d) ]_vars

\* t_par opened with Kjonn in top mode and no codelist; the codelist of Alder
\* has been switched to Aldersgrupper since, and Kjonn is as it was
C39_OtherCardKeptWitness ==
  /\ table = "t_par" /\ view = "variables" /\ phase = "ready"
  /\ activeCodelists["Alder"].codelistId = "Aldersgrupper"
  /\ activeCodelistIds["Alder"] = "Aldersgrupper"
  /\ mode["Kjonn"] = "top"
  /\ activeCodelists["Kjonn"].codelistId = NoCodelist
====
